---- MODULE Spec2Model ----
(***************************************************************************)
(* The Smali emulator's register machine: the opcode handlers of           *)
(* src/src/smali/opcodes.py run by the fetch-match-dispatch loop.          *)
(*                                                                         *)
(* An instruction line is a record [mn, ops]: the mnemonic token and the   *)
(* comma-separated operand texts.  Register names, labels and literals are *)
(* texts (strings); a handler's pattern yields its groups from them the    *)
(* way its regular expression does.  Python lists live in a heap, so that  *)
(* two registers (or a register and a table of the Program) bound to the   *)
(* same list see each other's writes.                                      *)
(***************************************************************************)
EXTENDS Integers, Sequences, FiniteSets, TLC

VARIABLES prog, variables, heap, pc, return_v, stop, exceptions, fatal, bridge,
          last, pre

vars == <<prog, variables, heap, pc, return_v, stop, exceptions, fatal, bridge,
          last, pre>>

(* Register contents and literals are drawn from -MaxInt .. MaxInt. *)
MaxInt == 3

IntVals == (-MaxInt) .. MaxInt

-----------------------------------------------------------------------------
(* Cells: the dynamically typed values a register holds. *)

IntCell(n) == [t |-> "int", v |-> n, s |-> ""]

ListCell(a) == [t |-> "list", v |-> a, s |-> ""]

StrCell(x) == [t |-> "str", v |-> 0, s |-> x]

ExcCell(kind) == [t |-> "exc", v |-> 0, s |-> kind]

NoneCell == [t |-> "none", v |-> 0, s |-> ""]

IsInt(c) == c.t = "int"

IsList(c) == c.t = "list"

(* A group that did not take part in the match (Python's None). *)
None == "<None>"

-----------------------------------------------------------------------------
(* Texts. *)

LastChar(s) == SubSeq(s, Len(s), Len(s))

StartsWith(s, p) == Len(s) >= Len(p) /\ SubSeq(s, 1, Len(p)) = p

EndsWith(s, p) == Len(s) >= Len(p) /\ SubSeq(s, Len(s) - Len(p) + 1, Len(s)) = p

After(s, p) == SubSeq(s, Len(p) + 1, Len(s))

RECURSIVE AllIn(_, _)
AllIn(s, chars) == Len(s) = 0 \/ (Head(s) \in chars /\ AllIn(Tail(s), chars))

DecDigits == {"0", "1", "2", "3", "4", "5", "6", "7", "8", "9"}

LowerLetters == {"a", "b", "c", "d", "e", "f", "g", "h", "i", "j", "k", "l", "m",
                 "n", "o", "p", "q", "r", "s", "t", "u", "v", "w", "x", "y", "z"}

IsDigits(s) == Len(s) > 0 /\ AllIn(s, DecDigits)

RECURSIVE RStrip(_, _)
RStrip(s, c) == IF Len(s) > 0 /\ LastChar(s) = c THEN RStrip(SubSeq(s, 1, Len(s) - 1), c) ELSE s

DigitVal(c) ==
    CASE c = "0" -> 0 [] c = "1" -> 1 [] c = "2" -> 2 [] c = "3" -> 3 [] c = "4" -> 4
      [] c = "5" -> 5 [] c = "6" -> 6 [] c = "7" -> 7 [] c = "8" -> 8 [] c = "9" -> 9
      [] c \in {"a", "A"} -> 10 [] c \in {"b", "B"} -> 11 [] c \in {"c", "C"} -> 12
      [] c \in {"d", "D"} -> 13 [] c \in {"e", "E"} -> 14 [] c \in {"f", "F"} -> 15
      [] OTHER -> 99

RECURSIVE Digits(_, _, _)
(* The value of the digit string s in the given base, after acc; -1 when a
   character is no digit of that base. *)
Digits(s, base, acc) ==
    IF Len(s) = 0 THEN acc
    ELSE IF DigitVal(Head(s)) >= base THEN -1
    ELSE Digits(Tail(s), base, acc * base + DigitVal(Head(s)))

(* ast.literal_eval on the text of an integer: [ok, v]. *)
Magnitude(s) ==
    IF StartsWith(s, "0x") \/ StartsWith(s, "0X")
    THEN IF Len(s) = 2 THEN -1 ELSE Digits(After(s, "0x"), 16, 0)
    ELSE IF Len(s) = 0 THEN -1 ELSE Digits(s, 10, 0)

literal_eval(s) ==
    LET neg == StartsWith(s, "-")
        m == Magnitude(IF neg THEN After(s, "-") ELSE s)
    IN  [ok |-> m >= 0, v |-> IF neg THEN -m ELSE m]

(* OpCode.get_int_value: strip trailing t, then trailing s, then evaluate. *)
get_int_value(val) == literal_eval(RStrip(RStrip(val, "t"), "s"))

-----------------------------------------------------------------------------
(* Program text. *)

Line(mn, ops) == [mn |-> mn, ops |-> ops]

RECURSIVE Join(_)
(* The text of several operands as one group: the separators stay in it. *)
Join(ops) == IF Len(ops) = 1 THEN ops[1] ELSE ops[1] \o ", " \o Join(Tail(ops))

NoMatch == [m |-> FALSE, g |-> <<>>]

(* The groups of  (.+),\s*(.+) ... with k groups: the first group is greedy
   and takes every operand the later groups leave. *)
CommaGroups(ops, k) ==
    IF Len(ops) < k THEN NoMatch
    ELSE [m |-> TRUE,
          g |-> <<Join(SubSeq(ops, 1, Len(ops) - k + 1))>>
                  \o SubSeq(ops, Len(ops) - k + 2, Len(ops))]

(* The same with a last group (\:.+), which must start with a colon. *)
LabelGroups(ops, k) ==
    IF Len(ops) >= k /\ StartsWith(ops[Len(ops)], ":") THEN CommaGroups(ops, k) ELSE NoMatch

-----------------------------------------------------------------------------
(* The VM as the handlers see it. *)

VM == [variables |-> variables, heap |-> heap, pc |-> pc, return_v |-> return_v,
       stop |-> stop, exceptions |-> exceptions, bridge |-> bridge,
       jumped |-> FALSE, raised |-> "", fatal |-> FALSE]

Has(vm, name) == name \in DOMAIN vm.variables

Get(vm, name) == vm.variables[name]

Set(vm, name, cell) == [vm EXCEPT !.variables = (name :> cell) @@ vm.variables]

(* A Python exception leaving the handler. *)
Raise(vm, kind) == [vm EXCEPT !.raised = kind]

Fatal(vm) == [vm EXCEPT !.fatal = TRUE]

goto(vm, label) ==
    IF label \in DOMAIN prog.labels
    THEN [vm EXCEPT !.pc = prog.labels[label], !.jumped = TRUE]
    ELSE Raise(vm, "KeyError")

(* The Java exception type an emulated exception stands for. *)
JavaType(kind) ==
    CASE kind = "ZeroDivisionError" -> "Ljava/lang/ArithmeticException;"
      [] kind = "IndexError" -> "Ljava/lang/ArrayIndexOutOfBoundsException;"
      [] OTHER -> "Ljava/lang/RuntimeException;"

Catches(block, at, kind) ==
    /\ block.start_line <= at
    /\ at <= block.end_line
    /\ (block.catchall \/ block.exception_type = JavaType(kind))

(* vm.exception(e): push e, then route to the first enclosing catch block
   or stop with a fatal diagnostic. *)
exception(vm, kind) ==
    LET pushed == [vm EXCEPT !.exceptions = Append(@, ExcCell(kind)), !.raised = kind]
        hits == {i \in 1 .. Len(prog.catch_blocks) : Catches(prog.catch_blocks[i], vm.pc, kind)}
    IN  IF hits = {} THEN Fatal(pushed)
        ELSE LET first == CHOOSE i \in hits : \A j \in hits : i <= j
             IN  goto(pushed, prog.catch_blocks[first].handler_label)

(* OpCode.parse, after the match: whatever eval raises goes to vm.exception. *)
parse(out) == IF out.raised # "" THEN exception(out, out.raised) ELSE out

CurLine == prog.lines[pc]

Running == ~stop /\ ~fatal /\ pc \in 1 .. Len(prog.lines)

IsSkipLine(line) == StartsWith(line.mn, ":") \/ StartsWith(line.mn, ".")

Snapshot == [variables |-> variables, heap |-> heap, return_v |-> return_v,
             stop |-> stop, exceptions |-> exceptions, bridge |-> bridge]

Outcome(out) == IF out.fatal THEN "fatal" ELSE IF out.raised # "" THEN "raised" ELSE "ok"

(* One turn of the loop after the dispatch: the handler's effects, then pc
   moves on by one unless the handler set it. *)
Commit(h, out) ==
    /\ variables' = out.variables
    /\ heap' = out.heap
    /\ return_v' = out.return_v
    /\ stop' = out.stop
    /\ exceptions' = out.exceptions
    /\ fatal' = out.fatal
    /\ bridge' = out.bridge
    /\ pc' = IF out.fatal THEN pc ELSE IF out.jumped THEN out.pc ELSE pc + 1
    /\ last' = [h |-> h, at |-> pc, out |-> Outcome(out), kind |-> out.raised]
    /\ pre' = Snapshot
    /\ UNCHANGED prog

-----------------------------------------------------------------------------
(* Python's integers and lists. *)

(* y % z for z # 0: the result has the sign of z. *)
PyMod(y, z) == y - z * (y \div z)

RECURSIVE PyAnd(_, _)
(* a & b on two's complement integers of any length. *)
PyAnd(a, b) ==
    IF a = 0 \/ b = 0 THEN 0
    ELSE IF a = -1 THEN b
    ELSE IF b = -1 THEN a
    ELSE 2 * PyAnd(a \div 2, b \div 2) + (a % 2) * (b % 2)

RECURSIVE PyOr(_, _)
PyOr(a, b) ==
    IF a = 0 THEN b
    ELSE IF b = 0 THEN a
    ELSE IF a = -1 \/ b = -1 THEN -1
    ELSE 2 * PyOr(a \div 2, b \div 2) + (IF a % 2 = 1 \/ b % 2 = 1 THEN 1 ELSE 0)

RECURSIVE PyXor(_, _)
PyXor(a, b) ==
    IF a = 0 THEN b
    ELSE IF b = 0 THEN a
    ELSE IF a = -1 THEN -b - 1
    ELSE IF b = -1 THEN -a - 1
    ELSE 2 * PyXor(a \div 2, b \div 2) + (IF a % 2 = b % 2 THEN 0 ELSE 1)

(* The error of reading two registers as integers, "" when there is none. *)
ReadInts(vm, vy, vz) ==
    IF ~Has(vm, vy) \/ ~Has(vm, vz) THEN "KeyError"
    ELSE IF ~IsInt(Get(vm, vy)) \/ ~IsInt(Get(vm, vz)) THEN "TypeError"
    ELSE ""

ReadInt(vm, vx) ==
    IF ~Has(vm, vx) THEN "KeyError"
    ELSE IF ~IsInt(Get(vm, vx)) THEN "TypeError"
    ELSE ""

(* a == b on cells: lists compare by their elements. *)
PyEq(vm, a, b) ==
    IF IsList(a) /\ IsList(b) THEN vm.heap[a.v] = vm.heap[b.v] ELSE a = b

-----------------------------------------------------------------------------
(* The opcode handlers: for each, its pattern (__init__) and its eval. *)

op_Const_eval(vm, vx, lit) ==
    LET n == get_int_value(lit)
    IN  IF ~n.ok THEN Raise(vm, "ValueError") ELSE Set(vm, vx, IntCell(n.v))

(* op_MoveException.eval taking the oldest exception, pop(0). *)
MoveException_PopsOldest(vm, vx) ==
    IF vm.exceptions = <<>> THEN Raise(vm, "IndexError")
    ELSE Set([vm EXCEPT !.exceptions = Tail(@)], vx, vm.exceptions[1])

op_MoveException_eval(vm, vx) ==
    IF vm.exceptions = <<>> THEN Raise(vm, "IndexError")
    ELSE Set([vm EXCEPT !.exceptions = SubSeq(@, 1, Len(@) - 1)],
             vx, vm.exceptions[Len(vm.exceptions)])

(* op_IfLe.eval comparing with < in place of <=. *)
IfLe_Strict(vm, vx, vy, label) ==
    LET err == ReadInts(vm, vx, vy)
    IN  IF err # "" THEN Raise(vm, err)
        ELSE IF Get(vm, vx).v < Get(vm, vy).v THEN goto(vm, label) ELSE vm

op_IfLe_eval(vm, vx, vy, label) ==
    LET err == ReadInts(vm, vx, vy)
    IN  IF err # "" THEN Raise(vm, err)
        ELSE IF Get(vm, vx).v <= Get(vm, vy).v THEN goto(vm, label) ELSE vm

op_IfGe_eval(vm, vx, vy, label) ==
    LET err == ReadInts(vm, vx, vy)
    IN  IF err # "" THEN Raise(vm, err)
        ELSE IF Get(vm, vx).v >= Get(vm, vy).v THEN goto(vm, label) ELSE vm

op_IfGez_eval(vm, vx, label) ==
    LET err == ReadInt(vm, vx)
    IN  IF err # "" THEN Raise(vm, err)
        ELSE IF Get(vm, vx).v >= 0 THEN goto(vm, label) ELSE vm

op_IfLtz_eval(vm, vx, label) ==
    LET err == ReadInt(vm, vx)
    IN  IF err # "" THEN Raise(vm, err)
        ELSE IF Get(vm, vx).v < 0 THEN goto(vm, label) ELSE vm

op_IfGt_eval(vm, vx, vy, label) ==
    LET err == ReadInts(vm, vx, vy)
    IN  IF err # "" THEN Raise(vm, err)
        ELSE IF Get(vm, vx).v > Get(vm, vy).v THEN goto(vm, label) ELSE vm

op_IfGtz_eval(vm, vx, label) ==
    LET err == ReadInt(vm, vx)
    IN  IF err # "" THEN Raise(vm, err)
        ELSE IF Get(vm, vx).v > 0 THEN goto(vm, label) ELSE vm

op_IfLez_eval(vm, vx, label) ==
    LET err == ReadInt(vm, vx)
    IN  IF err # "" THEN Raise(vm, err)
        ELSE IF Get(vm, vx).v <= 0 THEN goto(vm, label) ELSE vm

op_IfEq_eval(vm, vx, vy, label) ==
    IF ~Has(vm, vx) \/ ~Has(vm, vy) THEN Raise(vm, "KeyError")
    ELSE IF PyEq(vm, Get(vm, vx), Get(vm, vy)) THEN goto(vm, label) ELSE vm

op_IfNe_eval(vm, vx, vy, label) ==
    IF ~Has(vm, vx) \/ ~Has(vm, vy) THEN Raise(vm, "KeyError")
    ELSE IF ~PyEq(vm, Get(vm, vx), Get(vm, vy)) THEN goto(vm, label) ELSE vm

op_IfLt_eval(vm, vx, vy, label) ==
    LET err == ReadInts(vm, vx, vy)
    IN  IF err # "" THEN Raise(vm, err)
        ELSE IF Get(vm, vx).v < Get(vm, vy).v THEN goto(vm, label) ELSE vm

op_IfEqz_eval(vm, vx, label) ==
    IF ~Has(vm, vx) THEN Raise(vm, "KeyError")
    ELSE IF Get(vm, vx) = IntCell(0) THEN goto(vm, label) ELSE vm

op_IfNez_eval(vm, vx, label) ==
    IF ~Has(vm, vx) THEN Raise(vm, "KeyError")
    ELSE IF Get(vm, vx) # IntCell(0) THEN goto(vm, label) ELSE vm

op_ArrayLength_eval(vm, vx, vy) ==
    IF ~Has(vm, vy) THEN Raise(vm, "KeyError")
    ELSE IF IsList(Get(vm, vy)) THEN Set(vm, vx, IntCell(Len(vm.heap[Get(vm, vy).v])))
    ELSE IF Get(vm, vy).t = "str" THEN Set(vm, vx, IntCell(Len(Get(vm, vy).s)))
    ELSE Raise(vm, "TypeError")

(* vx is bound to the list object the table holds, not to a copy of it. *)
op_ArrayFillData_eval(vm, vx, label) ==
    IF label \notin DOMAIN prog.array_data THEN Raise(vm, "KeyError")
    ELSE Set(vm, vx, ListCell(prog.array_data[label].elements))

(* arr[idx] on a list: an index in -len .. -1 counts from the end. *)
ListIndex(arr, idx) == IF idx < 0 THEN idx + Len(arr) + 1 ELSE idx + 1

InList(arr, idx) == -Len(arr) <= idx /\ idx < Len(arr)

op_Aget_eval(vm, vx, vy, vz) ==
    IF ~Has(vm, vy) \/ ~Has(vm, vz) THEN Raise(vm, "KeyError")
    ELSE IF ~IsList(Get(vm, vy)) \/ ~IsInt(Get(vm, vz)) THEN Raise(vm, "TypeError")
    ELSE LET arr == vm.heap[Get(vm, vy).v]
             idx == Get(vm, vz).v
         IN  IF InList(arr, idx) THEN Set(vm, vx, arr[ListIndex(arr, idx)])
             ELSE Raise(vm, "IndexError")

(* eval("%s * %s" % (vm[vy], lit)): the literal's text is evaluated as it
   stands, a suffix is not stripped. *)
op_MulIntLit_eval(vm, vx, vy, lit) ==
    LET n == literal_eval(lit)
    IN  IF ~Has(vm, vy) THEN Raise(vm, "KeyError")
        ELSE IF ~n.ok THEN Raise(vm, "SyntaxError")
        ELSE IF ~IsInt(Get(vm, vy)) THEN Raise(vm, "TypeError")
        ELSE Set(vm, vx, IntCell(Get(vm, vy).v * n.v))

(* vy is read first (isinstance), then vx; a cell that is neither an integer
   nor one character fails in ord or in ^. *)
op_XorInt2Addr_eval(vm, vx, vy) ==
    IF ~Has(vm, vy) THEN Raise(vm, "KeyError")
    ELSE IF ~Has(vm, vx) THEN Raise(vm, "KeyError")
    ELSE IF ~IsInt(Get(vm, vy)) \/ ~IsInt(Get(vm, vx)) THEN Raise(vm, "TypeError")
    ELSE Set(vm, vx, IntCell(PyXor(Get(vm, vx).v, Get(vm, vy).v)))

(* op_DivInt.eval dividing with / : under "from __future__ import division"
   the quotient of two integers is a float. *)
DivInt_TrueDivision(vm, vx, vy, vz) ==
    LET err == ReadInts(vm, vy, vz)
    IN  IF err # "" THEN Raise(vm, err)
        ELSE IF Get(vm, vz).v = 0 THEN Raise(vm, "ZeroDivisionError")
        ELSE Set(vm, vx, [t |-> "float", v |-> Get(vm, vy).v \div Get(vm, vz).v, s |-> ""])

(* op_DivInt.eval with a guard that turns a zero divisor into the result 0. *)
DivInt_ZeroGivesZero(vm, vx, vy, vz) ==
    LET err == ReadInts(vm, vy, vz)
    IN  IF err # "" THEN Raise(vm, err)
        ELSE IF Get(vm, vz).v = 0 THEN Set(vm, vx, IntCell(0))
        ELSE Set(vm, vx, IntCell(Get(vm, vy).v \div Get(vm, vz).v))

op_DivInt_eval(vm, vx, vy, vz) ==
    LET err == ReadInts(vm, vy, vz)
    IN  IF err # "" THEN Raise(vm, err)
        ELSE IF Get(vm, vz).v = 0 THEN Raise(vm, "ZeroDivisionError")
        ELSE Set(vm, vx, IntCell(Get(vm, vy).v \div Get(vm, vz).v))

op_AddInt_eval(vm, vx, vy, vz) ==
    LET err == ReadInts(vm, vy, vz)
    IN  IF err # "" THEN Raise(vm, err)
        ELSE Set(vm, vx, IntCell(Get(vm, vy).v + Get(vm, vz).v))

op_SubInt_eval(vm, vx, vy, vz) ==
    LET err == ReadInts(vm, vy, vz)
    IN  IF err # "" THEN Raise(vm, err)
        ELSE Set(vm, vx, IntCell(Get(vm, vy).v - Get(vm, vz).v))

op_MulInt_eval(vm, vx, vy, vz) ==
    LET err == ReadInts(vm, vy, vz)
    IN  IF err # "" THEN Raise(vm, err)
        ELSE Set(vm, vx, IntCell(Get(vm, vy).v * Get(vm, vz).v))

op_RemInt_eval(vm, vx, vy, vz) ==
    LET err == ReadInts(vm, vy, vz)
    IN  IF err # "" THEN Raise(vm, err)
        ELSE IF Get(vm, vz).v = 0 THEN Raise(vm, "ZeroDivisionError")
        ELSE Set(vm, vx, IntCell(PyMod(Get(vm, vy).v, Get(vm, vz).v)))

op_AndInt_eval(vm, vx, vy, vz) ==
    LET err == ReadInts(vm, vy, vz)
    IN  IF err # "" THEN Raise(vm, err)
        ELSE Set(vm, vx, IntCell(PyAnd(Get(vm, vy).v, Get(vm, vz).v)))

op_OrInt_eval(vm, vx, vy, vz) ==
    LET err == ReadInts(vm, vy, vz)
    IN  IF err # "" THEN Raise(vm, err)
        ELSE Set(vm, vx, IntCell(PyOr(Get(vm, vy).v, Get(vm, vz).v)))

op_GoTo_eval(vm, label) == goto(vm, label)

(* [""] * n: a new list of n empty strings, empty when n <= 0. *)
op_NewArray_eval(vm, vx, vy, klass) ==
    LET err == ReadInt(vm, vy)
    IN  IF err # "" THEN Raise(vm, err)
        ELSE LET n == IF Get(vm, vy).v < 0 THEN 0 ELSE Get(vm, vy).v
                 fresh == [i \in 1 .. n |-> StrCell("")]
             IN  Set([vm EXCEPT !.heap = Append(@, fresh)], vx, ListCell(Len(vm.heap) + 1))

(* op_APut.eval appending for every index at or past the end. *)
APut_AppendsPastEnd(vm, vx, vy, vz) ==
    IF ~Has(vm, vz) THEN Raise(vm, "KeyError")
    ELSE IF ~IsInt(Get(vm, vz)) THEN Raise(vm, "TypeError")
    ELSE IF ~Has(vm, vy) \/ ~Has(vm, vx) THEN Raise(vm, "KeyError")
    ELSE IF ~IsList(Get(vm, vy)) THEN Raise(vm, "TypeError")
    ELSE LET idx == Get(vm, vz).v
             a == Get(vm, vy).v
             arr == vm.heap[a]
             val == Get(vm, vx)
         IN  IF Len(arr) > idx
             THEN IF InList(arr, idx)
                  THEN [vm EXCEPT !.heap[a][ListIndex(arr, idx)] = val]
                  ELSE Raise(vm, "IndexError")
             ELSE [vm EXCEPT !.heap[a] = Append(arr, val)]

(* The list object is written in place: every holder of it sees the write. *)
op_APut_eval(vm, vx, vy, vz) ==
    IF ~Has(vm, vz) THEN Raise(vm, "KeyError")
    ELSE IF ~IsInt(Get(vm, vz)) THEN Raise(vm, "TypeError")
    ELSE IF ~Has(vm, vy) \/ ~Has(vm, vx) THEN Raise(vm, "KeyError")
    ELSE IF ~IsList(Get(vm, vy)) THEN Raise(vm, "TypeError")
    ELSE LET idx == Get(vm, vz).v
             a == Get(vm, vy).v
             arr == vm.heap[a]
             val == Get(vm, vx)
         IN  IF Len(arr) > idx
             THEN IF InList(arr, idx)
                  THEN [vm EXCEPT !.heap[a][ListIndex(arr, idx)] = val]
                  ELSE Raise(vm, "IndexError")
             ELSE IF idx = Len(arr) THEN [vm EXCEPT !.heap[a] = Append(arr, val)]
             ELSE vm

(* The pattern of return: ctype is the last -word of the mnemonic (None
   when there is none), vx whatever follows it (None when nothing does). *)
RECURSIVE LastDashWord(_)
LastDashWord(s) ==
    IF LastChar(s) = "-" THEN "-"
    ELSE LastDashWord(SubSeq(s, 1, Len(s) - 1)) \o LastChar(s)

(* op_Return.eval with a -wide branch that does not set stop. *)
Return_WideRunsOn(vm, ctype, vx) ==
    IF (ctype = None /\ vx = None) \/ ctype = "-void"
    THEN [vm EXCEPT !.return_v = NoneCell, !.stop = TRUE]
    ELSE IF ctype \in {"-wide", "-object"} \/ (ctype = None /\ vx # None)
    THEN IF ~Has(vm, vx) THEN Raise(vm, "KeyError")
         ELSE [vm EXCEPT !.return_v = Get(vm, vx), !.stop = (ctype # "-wide")]
    ELSE Fatal(vm)

(* op_Return.eval with a -void branch that does not set stop. *)
Return_VoidRunsOn(vm, ctype, vx) ==
    IF (ctype = None /\ vx = None) \/ ctype = "-void"
    THEN [vm EXCEPT !.return_v = NoneCell]
    ELSE IF ctype \in {"-wide", "-object"} \/ (ctype = None /\ vx # None)
    THEN IF ~Has(vm, vx) THEN Raise(vm, "KeyError")
         ELSE [vm EXCEPT !.return_v = Get(vm, vx), !.stop = TRUE]
    ELSE Fatal(vm)

(* op_Return.eval setting stop before it reads vm[vx]. *)
Return_StopsFirst(vm, ctype, vx) ==
    IF (ctype = None /\ vx = None) \/ ctype = "-void"
    THEN [vm EXCEPT !.return_v = NoneCell, !.stop = TRUE]
    ELSE IF ctype \in {"-wide", "-object"} \/ (ctype = None /\ vx # None)
    THEN IF ~Has(vm, vx) THEN Raise([vm EXCEPT !.stop = TRUE], "KeyError")
         ELSE [vm EXCEPT !.return_v = Get(vm, vx), !.stop = TRUE]
    ELSE Fatal(vm)

op_Return_eval(vm, ctype, vx) ==
    IF (ctype = None /\ vx = None) \/ ctype = "-void"
    THEN [vm EXCEPT !.return_v = NoneCell, !.stop = TRUE]
    ELSE IF ctype \in {"-wide", "-object"} \/ (ctype = None /\ vx # None)
    THEN IF ~Has(vm, vx) THEN Raise(vm, "KeyError")
         ELSE [vm EXCEPT !.return_v = Get(vm, vx), !.stop = TRUE]
    ELSE Fatal(vm)

(* op_PackedSwitch.eval without the test case_idx < 0: a negative index
   then counts from the end of the case list. *)
PackedSwitch_NoLowerTest(vm, vx, table) ==
    IF ~Has(vm, vx) THEN Raise(vm, "KeyError")
    ELSE IF table \notin DOMAIN prog.packed_switches \/ ~IsInt(Get(vm, vx))
    THEN Raise(vm, "TypeError")
    ELSE LET switch == prog.packed_switches[table]
             cases == switch.cases
             case_idx == Get(vm, vx).v - switch.first_value
         IN  IF case_idx >= Len(cases) THEN vm
             ELSE IF case_idx < -Len(cases) THEN Raise(vm, "IndexError")
             ELSE goto(vm, cases[IF case_idx < 0 THEN case_idx + Len(cases) + 1 ELSE case_idx + 1])

(* A table that is not there gives first_value None, and val - None fails. *)
op_PackedSwitch_eval(vm, vx, table) ==
    IF ~Has(vm, vx) THEN Raise(vm, "KeyError")
    ELSE IF table \notin DOMAIN prog.packed_switches \/ ~IsInt(Get(vm, vx))
    THEN Raise(vm, "TypeError")
    ELSE LET switch == prog.packed_switches[table]
             cases == switch.cases
             case_idx == Get(vm, vx).v - switch.first_value
         IN  IF case_idx >= Len(cases) \/ case_idx < 0 THEN vm
             ELSE goto(vm, cases[case_idx + 1])

(* -(2 ** (size - 1)) <= x <= 2 ** (size - 1) - 1, on the halves of x so
   that no intermediate value leaves the range of the integers at hand. *)
FitsHalf(q, size) == -(2 ^ (size - 2)) <= q /\ q <= 2 ^ (size - 2) - 1

Fits(x, size) == FitsHalf(x \div 2, size)

(* The same for the difference c - s, which may not be representable. *)
DiffFits(c, s, size) ==
    LET r == (c % 2) - (s % 2)
    IN  FitsHalf((c \div 2) - (s \div 2) + (r \div 2), size)

(* op_RSubIntLiteral.eval subtracting the literal from the register. *)
RSub_Forward(vm, register_size, destination, source, constant) ==
    LET size == literal_eval(register_size).v
        c == get_int_value(constant)
    IN  IF ~Has(vm, source) THEN Raise(vm, "KeyError")
        ELSE IF ~c.ok THEN Raise(vm, "ValueError")
        ELSE IF ~IsInt(Get(vm, source)) THEN Raise(vm, "TypeError")
        ELSE IF ~(/\ Fits(Get(vm, source).v, size)
                  /\ Fits(c.v, size)
                  /\ DiffFits(Get(vm, source).v, c.v, size))
        THEN Raise(vm, "AssertionError")
        ELSE Set(vm, destination, IntCell(Get(vm, source).v - c.v))

op_RSubIntLiteral_eval(vm, register_size, destination, source, constant) ==
    LET size == literal_eval(register_size).v
        c == get_int_value(constant)
    IN  IF ~Has(vm, source) THEN Raise(vm, "KeyError")
        ELSE IF ~c.ok THEN Raise(vm, "ValueError")
        ELSE IF ~IsInt(Get(vm, source)) THEN Raise(vm, "TypeError")
        ELSE IF ~(/\ Fits(Get(vm, source).v, size)
                  /\ Fits(c.v, size)
                  /\ DiffFits(c.v, Get(vm, source).v, size))
        THEN Raise(vm, "AssertionError")
        ELSE Set(vm, destination, IntCell(c.v - Get(vm, source).v))

(* op_MoveResult.eval consuming the result: return_v is cleared once moved. *)
MoveResult_Consumes(vm, dest) == [Set(vm, dest, vm.return_v) EXCEPT !.return_v = NoneCell]

(* vm[dest] = vm.return_v: return_v is read, not cleared. *)
op_MoveResult_eval(vm, dest) == Set(vm, dest, vm.return_v)

(* op_DivIntLit.eval rounding the quotient toward zero, as int(a / b). *)
DivIntLit_Truncates(vm, vx, vy, lit) ==
    LET n == get_int_value(lit)
        y == Get(vm, vy).v
    IN  IF ~Has(vm, vy) THEN Raise(vm, "KeyError")
        ELSE IF ~n.ok THEN Raise(vm, "ValueError")
        ELSE IF ~IsInt(Get(vm, vy)) THEN Raise(vm, "TypeError")
        ELSE IF n.v = 0 THEN Raise(vm, "ZeroDivisionError")
        ELSE Set(vm, vx, IntCell(IF (y < 0) = (n.v < 0) THEN y \div n.v ELSE -((-y) \div n.v)))

(* vm[vy] // get_int_value(lit): vy is read first, then the literal. *)
op_DivIntLit_eval(vm, vx, vy, lit) ==
    LET n == get_int_value(lit)
    IN  IF ~Has(vm, vy) THEN Raise(vm, "KeyError")
        ELSE IF ~n.ok THEN Raise(vm, "ValueError")
        ELSE IF ~IsInt(Get(vm, vy)) THEN Raise(vm, "TypeError")
        ELSE IF n.v = 0 THEN Raise(vm, "ZeroDivisionError")
        ELSE Set(vm, vx, IntCell(Get(vm, vy).v \div n.v))

op_RemIntLit_eval(vm, vx, vy, lit) ==
    LET n == get_int_value(lit)
    IN  IF ~Has(vm, vy) THEN Raise(vm, "KeyError")
        ELSE IF ~IsInt(Get(vm, vy)) THEN Raise(vm, "TypeError")
        ELSE IF ~n.ok THEN Raise(vm, "ValueError")
        ELSE IF n.v = 0 THEN Raise(vm, "ZeroDivisionError")
        ELSE Set(vm, vx, IntCell(PyMod(Get(vm, vy).v, n.v)))

(* source1 = vm[source_register], source2 = vm[source_and_dest],
   vm[source_and_dest] = source1 + source2. *)
op_AddInt2Addr_eval(vm, source_and_dest, source_register) ==
    LET err == ReadInts(vm, source_register, source_and_dest)
    IN  IF err # "" THEN Raise(vm, err)
        ELSE Set(vm, source_and_dest,
                 IntCell(Get(vm, source_register).v + Get(vm, source_and_dest).v))

(* op_SubInt2Addr.eval subtracting the other way round, source1 - source2. *)
SubInt2Addr_Reversed(vm, source_and_dest, source_register) ==
    LET err == ReadInts(vm, source_register, source_and_dest)
    IN  IF err # "" THEN Raise(vm, err)
        ELSE Set(vm, source_and_dest,
                 IntCell(Get(vm, source_register).v - Get(vm, source_and_dest).v))

(* vm[source_and_dest] = source2 - source1. *)
op_SubInt2Addr_eval(vm, source_and_dest, source_register) ==
    LET err == ReadInts(vm, source_register, source_and_dest)
    IN  IF err # "" THEN Raise(vm, err)
        ELSE Set(vm, source_and_dest,
                 IntCell(Get(vm, source_and_dest).v - Get(vm, source_register).v))

(* str.strip: blanks at both ends go. *)
RECURSIVE strip(_)
strip(s) ==
    IF Len(s) > 0 /\ Head(s) = " " THEN strip(Tail(s))
    ELSE IF Len(s) > 0 /\ LastChar(s) = " " THEN strip(SubSeq(s, 1, Len(s) - 1))
    ELSE s

(* str.split(sep): the pieces between the occurrences of sep, one piece (the
   text itself, also when empty) when there is none. *)
RECURSIVE split(_, _)
split(s, sep) ==
    LET hits == {i \in 1 .. Len(s) - Len(sep) + 1 : SubSeq(s, i, i + Len(sep) - 1) = sep}
    IN  IF hits = {} THEN <<s>>
        ELSE LET i == CHOOSE j \in hits : \A k \in hits : j <= k
             IN  <<SubSeq(s, 1, i - 1)>> \o split(SubSeq(s, i + Len(sep), Len(s)), sep)

(* vm.invoke(this, klass, method, args): the bridge receives the call and
   sets return_v, here to a cell that stands for the method's result. *)
invoke(vm, this, klass, method, args) ==
    [vm EXCEPT !.bridge = Append(@, [this |-> this, klass |-> klass,
                                     method |-> method, args |-> args]),
               !.return_v = IF EndsWith(method, ")V") THEN NoneCell ELSE StrCell(method)]

(* The first name of the list is this and the rest are the arguments,
   whatever the kind of the invoke; klass, method = call.split(';->'). *)
op_Invoke_eval(vm, args, call) ==
    LET names == split(args, ",")
        list == [i \in 1 .. Len(names) |-> strip(names[i])]
        parts == split(call, ";->")
    IN  IF Len(parts) # 2 THEN Raise(vm, "ValueError")
        ELSE invoke(vm, list[1], parts[1], parts[2], Tail(list))

(* char: chr(vm[vy] & 0xFFFF), a character cell with that code point; byte:
   the last byte of the big-endian packing of vm[vy] as a signed 32-bit
   integer, an integer in 0 .. 255; any other type is fatal. *)
op_IntToType_eval(vm, ctype, vx, vy) ==
    IF ctype \notin {"char", "byte"} THEN Fatal(vm)
    ELSE IF ~Has(vm, vy) THEN Raise(vm, "KeyError")
    ELSE IF ~IsInt(Get(vm, vy)) THEN Raise(vm, IF ctype = "char" THEN "TypeError" ELSE "struct.error")
    ELSE IF ctype = "char"
    THEN Set(vm, vx, [t |-> "chr", v |-> PyAnd(Get(vm, vy).v, 65535), s |-> ""])
    ELSE IF ~Fits(Get(vm, vy).v, 32) THEN Raise(vm, "struct.error")
    ELSE Set(vm, vx, IntCell(Get(vm, vy).v % 256))

-----------------------------------------------------------------------------
(* The registry and the dispatch: the first handler whose pattern matches. *)

Registry == <<"op_Const", "op_Move", "op_MoveResult", "op_MoveException",
             "op_IfLe", "op_IfGe", "op_IfGez", "op_IfLtz", "op_IfGt", "op_IfGtz",
             "op_IfLez", "op_IfEq", "op_IfNe", "op_IfLt", "op_IfEqz", "op_IfNez",
             "op_ArrayLength", "op_ArrayFillData", "op_Aget",
             "op_AddIntLit", "op_MulIntLit", "op_XorInt2Addr", "op_OrIntLiteral",
             "op_DivIntLit", "op_DivInt", "op_AddInt", "op_SubInt", "op_MulInt",
             "op_RemInt", "op_AndInt", "op_AndIntLit", "op_AndInt2Addr", "op_OrInt",
             "op_GoTo", "op_NewArray", "op_APut", "op_Invoke", "op_IntToType",
             "op_SPut", "op_SGet", "op_Return", "op_RemIntLit", "op_PackedSwitch",
             "op_RSubIntLiteral", "op_AddInt2Addr", "op_SubInt2Addr", "op_OrInt2Addr">>

(* The pattern each handler is constructed with, applied to a line: whether
   it matches, and the groups it yields. *)
Pattern(h, line) ==
    CASE h = "op_Const" ->
            (IF line.mn = "const" \/ (StartsWith(line.mn, "const/") /\ IsDigits(After(line.mn, "const/")))
             THEN CommaGroups(line.ops, 2) ELSE NoMatch)
      [] h = "op_MoveException" ->
            (IF line.mn = "move-exception" /\ Len(line.ops) >= 1
             THEN [m |-> TRUE, g |-> <<Join(line.ops)>>] ELSE NoMatch)
      [] h = "op_IfLe" ->
            (IF line.mn = "if-le" THEN LabelGroups(line.ops, 3) ELSE NoMatch)
      [] h = "op_IfGe" ->
            (IF line.mn = "if-ge" THEN LabelGroups(line.ops, 3) ELSE NoMatch)
      [] h = "op_IfGez" ->
            (IF line.mn = "if-gez" THEN LabelGroups(line.ops, 2) ELSE NoMatch)
      [] h = "op_IfLtz" ->
            (IF line.mn = "if-ltz" THEN LabelGroups(line.ops, 2) ELSE NoMatch)
      [] h = "op_IfGt" ->
            (IF line.mn = "if-gt" THEN LabelGroups(line.ops, 3) ELSE NoMatch)
      [] h = "op_IfGtz" ->
            (IF line.mn = "if-gtz" THEN LabelGroups(line.ops, 2) ELSE NoMatch)
      [] h = "op_IfLez" ->
            (IF line.mn = "if-lez" THEN LabelGroups(line.ops, 2) ELSE NoMatch)
      [] h = "op_IfEq" ->
            (IF line.mn = "if-eq" THEN LabelGroups(line.ops, 3) ELSE NoMatch)
      [] h = "op_IfNe" ->
            (IF line.mn = "if-ne" THEN LabelGroups(line.ops, 3) ELSE NoMatch)
      [] h = "op_IfLt" ->
            (IF line.mn = "if-lt" THEN LabelGroups(line.ops, 3) ELSE NoMatch)
      [] h = "op_IfEqz" ->
            (IF line.mn = "if-eqz" THEN LabelGroups(line.ops, 2) ELSE NoMatch)
      [] h = "op_IfNez" ->
            (IF line.mn = "if-nez" THEN LabelGroups(line.ops, 2) ELSE NoMatch)
      [] h = "op_ArrayLength" ->
            (IF EndsWith(line.mn, "array-length") THEN CommaGroups(line.ops, 2) ELSE NoMatch)
      [] h = "op_ArrayFillData" ->
            (IF EndsWith(line.mn, "fill-array-data") THEN CommaGroups(line.ops, 2) ELSE NoMatch)
      [] h = "op_Aget" ->
            (IF StartsWith(line.mn, "aget") /\ AllIn(After(line.mn, "aget"), LowerLetters \cup {"-"})
             THEN CommaGroups(line.ops, 3) ELSE NoMatch)
      [] h = "op_MulIntLit" ->
            (IF StartsWith(line.mn, "mul-int/lit") /\ IsDigits(After(line.mn, "mul-int/lit"))
             THEN CommaGroups(line.ops, 3) ELSE NoMatch)
      [] h = "op_XorInt2Addr" ->
            (IF line.mn \in {"xor-int", "xor-int/2addr"} THEN CommaGroups(line.ops, 2) ELSE NoMatch)
      [] h = "op_DivInt" ->
            (IF line.mn = "div-int" THEN CommaGroups(line.ops, 3) ELSE NoMatch)
      [] h = "op_AddInt" ->
            (IF line.mn = "add-int" THEN CommaGroups(line.ops, 3) ELSE NoMatch)
      [] h = "op_SubInt" ->
            (IF line.mn = "sub-int" THEN CommaGroups(line.ops, 3) ELSE NoMatch)
      [] h = "op_MulInt" ->
            (IF line.mn = "mul-int" THEN CommaGroups(line.ops, 3) ELSE NoMatch)
      [] h = "op_RemInt" ->
            (IF line.mn = "rem-int" THEN CommaGroups(line.ops, 3) ELSE NoMatch)
      [] h = "op_AndInt" ->
            (IF line.mn = "and-int" THEN CommaGroups(line.ops, 3) ELSE NoMatch)
      [] h = "op_OrInt" ->
            (IF line.mn = "or-int" THEN CommaGroups(line.ops, 3) ELSE NoMatch)
      [] h = "op_GoTo" ->
            (IF /\ line.mn = "goto" \/ (StartsWith(line.mn, "goto/") /\ IsDigits(After(line.mn, "goto/")))
                /\ Len(line.ops) >= 1
                /\ StartsWith(line.ops[1], ":")
             THEN [m |-> TRUE, g |-> <<Join(line.ops)>>] ELSE NoMatch)
      [] h = "op_NewArray" ->
            (IF line.mn = "new-array" THEN CommaGroups(line.ops, 3) ELSE NoMatch)
      [] h = "op_APut" ->
            (IF \/ line.mn = "aput"
                \/ /\ StartsWith(line.mn, "aput-")
                   /\ Len(line.mn) > 5
                   /\ AllIn(After(line.mn, "aput-"), LowerLetters)
             THEN CommaGroups(line.ops, 3) ELSE NoMatch)
      [] h = "op_Return" ->
            (LET rest == After(line.mn, "return")
                 tail == IF line.ops = <<>> THEN None ELSE Join(line.ops)
             IN  IF ~StartsWith(line.mn, "return") THEN NoMatch
                 ELSE IF rest = "" THEN [m |-> TRUE, g |-> <<None, tail>>]
                 ELSE IF StartsWith(rest, "-") /\ AllIn(rest, LowerLetters \cup {"-"})
                 THEN [m |-> TRUE, g |-> <<LastDashWord(rest), tail>>]
                 ELSE [m |-> TRUE, g |-> <<None, IF tail = None THEN rest ELSE rest \o " " \o tail>>])
      [] h = "op_PackedSwitch" ->
            (IF line.mn = "packed-switch" THEN CommaGroups(line.ops, 2) ELSE NoMatch)
      [] h = "op_RSubIntLiteral" ->
            (IF StartsWith(line.mn, "rsub-int/lit") /\ IsDigits(After(line.mn, "rsub-int/lit"))
                /\ Len(line.ops) >= 3
             THEN [m |-> TRUE, g |-> <<After(line.mn, "rsub-int/lit")>> \o CommaGroups(line.ops, 3).g]
             ELSE NoMatch)
      [] h = "op_Move" ->
            (IF line.mn \in {"move", "move-object"} THEN CommaGroups(line.ops, 2) ELSE NoMatch)
      [] h = "op_MoveResult" ->
            (IF line.mn \in {"move-result", "move-result-object"} /\ Len(line.ops) >= 1
             THEN [m |-> TRUE, g |-> <<Join(line.ops)>>] ELSE NoMatch)
      [] h = "op_AddIntLit" ->
            (IF StartsWith(line.mn, "add-int/lit") /\ IsDigits(After(line.mn, "add-int/lit"))
             THEN CommaGroups(line.ops, 3) ELSE NoMatch)
      [] h = "op_OrIntLiteral" ->
            (IF StartsWith(line.mn, "or-int/lit") /\ IsDigits(After(line.mn, "or-int/lit"))
                /\ Len(line.ops) >= 3
             THEN [m |-> TRUE, g |-> <<After(line.mn, "or-int/lit")>> \o CommaGroups(line.ops, 3).g]
             ELSE NoMatch)
      [] h = "op_DivIntLit" ->
            (IF StartsWith(line.mn, "div-int/lit") /\ IsDigits(After(line.mn, "div-int/lit"))
             THEN CommaGroups(line.ops, 3) ELSE NoMatch)
      [] h = "op_AndIntLit" ->
            (IF StartsWith(line.mn, "and-int/lit") /\ IsDigits(After(line.mn, "and-int/lit"))
             THEN CommaGroups(line.ops, 3) ELSE NoMatch)
      [] h = "op_AndInt2Addr" ->
            (IF line.mn = "and-int/2addr" THEN CommaGroups(line.ops, 2) ELSE NoMatch)
      [] h = "op_Invoke" ->
            (* the list in braces runs to the last "}," that leaves a call *)
            (LET text == IF line.ops = <<>> THEN "" ELSE Join(line.ops)
                 ends == {i \in 2 .. Len(text) - 2 : SubSeq(text, i, i + 1) = "},"}
             IN  IF /\ StartsWith(line.mn, "invoke-")
                    /\ Len(line.mn) > 7
                    /\ AllIn(After(line.mn, "invoke-"), LowerLetters)
                    /\ StartsWith(text, "{")
                    /\ ends # {}
                 THEN LET i == CHOOSE j \in ends : \A k \in ends : k <= j
                      IN  [m |-> TRUE, g |-> <<strip(SubSeq(text, 2, i - 1)),
                                               strip(SubSeq(text, i + 2, Len(text)))>>]
                 ELSE NoMatch)
      [] h = "op_IntToType" ->
            (IF /\ StartsWith(line.mn, "int-to-")
                /\ Len(line.mn) > 7
                /\ AllIn(After(line.mn, "int-to-"), LowerLetters)
                /\ Len(line.ops) >= 2
             THEN [m |-> TRUE, g |-> <<After(line.mn, "int-to-")>> \o CommaGroups(line.ops, 2).g]
             ELSE NoMatch)
      [] h = "op_SPut" ->
            (IF \/ line.mn = "sput"
                \/ /\ StartsWith(line.mn, "sput-")
                   /\ Len(line.mn) > 5
                   /\ AllIn(After(line.mn, "sput-"), LowerLetters)
             THEN CommaGroups(line.ops, 2) ELSE NoMatch)
      [] h = "op_SGet" ->
            (IF \/ line.mn = "sget"
                \/ /\ StartsWith(line.mn, "sget-")
                   /\ Len(line.mn) > 5
                   /\ AllIn(After(line.mn, "sget-"), LowerLetters)
             THEN CommaGroups(line.ops, 2) ELSE NoMatch)
      [] h = "op_RemIntLit" ->
            (IF StartsWith(line.mn, "rem-int/lit") /\ IsDigits(After(line.mn, "rem-int/lit"))
             THEN CommaGroups(line.ops, 3) ELSE NoMatch)
      [] h = "op_AddInt2Addr" ->
            (IF line.mn = "add-int/2addr" THEN CommaGroups(line.ops, 2) ELSE NoMatch)
      [] h = "op_SubInt2Addr" ->
            (IF line.mn = "sub-int/2addr" THEN CommaGroups(line.ops, 2) ELSE NoMatch)
      [] h = "op_OrInt2Addr" ->
            (IF line.mn = "or-int/2addr" THEN CommaGroups(line.ops, 2) ELSE NoMatch)

Index(h) == CHOOSE i \in 1 .. Len(Registry) : Registry[i] = h

(* h is the first handler of the registry whose pattern matches the line. *)
Dispatch(h, line) ==
    /\ Pattern(h, line).m
    /\ \A i \in 1 .. Index(h) - 1 : ~Pattern(Registry[i], line).m

Unknown(line) == \A i \in 1 .. Len(Registry) : ~Pattern(Registry[i], line).m

Dispatches(h) == Running /\ ~IsSkipLine(CurLine) /\ Dispatch(h, CurLine)

-----------------------------------------------------------------------------
(* The steps of the executor: one per handler, and the two that run none. *)

op_Const ==
    /\ Dispatches("op_Const")
    /\ LET g == Pattern("op_Const", CurLine).g
       IN  Commit("op_Const", parse(op_Const_eval(VM, g[1], g[2])))

op_MoveException ==
    /\ Dispatches("op_MoveException")
    /\ LET g == Pattern("op_MoveException", CurLine).g
       IN  Commit("op_MoveException", parse(op_MoveException_eval(VM, g[1])))

op_IfLe ==
    /\ Dispatches("op_IfLe")
    /\ LET g == Pattern("op_IfLe", CurLine).g
       IN  Commit("op_IfLe", parse(op_IfLe_eval(VM, g[1], g[2], g[3])))

op_IfGe ==
    /\ Dispatches("op_IfGe")
    /\ LET g == Pattern("op_IfGe", CurLine).g
       IN  Commit("op_IfGe", parse(op_IfGe_eval(VM, g[1], g[2], g[3])))

op_IfGez ==
    /\ Dispatches("op_IfGez")
    /\ LET g == Pattern("op_IfGez", CurLine).g
       IN  Commit("op_IfGez", parse(op_IfGez_eval(VM, g[1], g[2])))

op_IfLtz ==
    /\ Dispatches("op_IfLtz")
    /\ LET g == Pattern("op_IfLtz", CurLine).g
       IN  Commit("op_IfLtz", parse(op_IfLtz_eval(VM, g[1], g[2])))

op_IfGt ==
    /\ Dispatches("op_IfGt")
    /\ LET g == Pattern("op_IfGt", CurLine).g
       IN  Commit("op_IfGt", parse(op_IfGt_eval(VM, g[1], g[2], g[3])))

op_IfGtz ==
    /\ Dispatches("op_IfGtz")
    /\ LET g == Pattern("op_IfGtz", CurLine).g
       IN  Commit("op_IfGtz", parse(op_IfGtz_eval(VM, g[1], g[2])))

op_IfLez ==
    /\ Dispatches("op_IfLez")
    /\ LET g == Pattern("op_IfLez", CurLine).g
       IN  Commit("op_IfLez", parse(op_IfLez_eval(VM, g[1], g[2])))

op_IfEq ==
    /\ Dispatches("op_IfEq")
    /\ LET g == Pattern("op_IfEq", CurLine).g
       IN  Commit("op_IfEq", parse(op_IfEq_eval(VM, g[1], g[2], g[3])))

op_IfNe ==
    /\ Dispatches("op_IfNe")
    /\ LET g == Pattern("op_IfNe", CurLine).g
       IN  Commit("op_IfNe", parse(op_IfNe_eval(VM, g[1], g[2], g[3])))

op_IfLt ==
    /\ Dispatches("op_IfLt")
    /\ LET g == Pattern("op_IfLt", CurLine).g
       IN  Commit("op_IfLt", parse(op_IfLt_eval(VM, g[1], g[2], g[3])))

op_IfEqz ==
    /\ Dispatches("op_IfEqz")
    /\ LET g == Pattern("op_IfEqz", CurLine).g
       IN  Commit("op_IfEqz", parse(op_IfEqz_eval(VM, g[1], g[2])))

op_IfNez ==
    /\ Dispatches("op_IfNez")
    /\ LET g == Pattern("op_IfNez", CurLine).g
       IN  Commit("op_IfNez", parse(op_IfNez_eval(VM, g[1], g[2])))

op_ArrayLength ==
    /\ Dispatches("op_ArrayLength")
    /\ LET g == Pattern("op_ArrayLength", CurLine).g
       IN  Commit("op_ArrayLength", parse(op_ArrayLength_eval(VM, g[1], g[2])))

op_ArrayFillData ==
    /\ Dispatches("op_ArrayFillData")
    /\ LET g == Pattern("op_ArrayFillData", CurLine).g
       IN  Commit("op_ArrayFillData", parse(op_ArrayFillData_eval(VM, g[1], g[2])))

op_Aget ==
    /\ Dispatches("op_Aget")
    /\ LET g == Pattern("op_Aget", CurLine).g
       IN  Commit("op_Aget", parse(op_Aget_eval(VM, g[1], g[2], g[3])))

op_MulIntLit ==
    /\ Dispatches("op_MulIntLit")
    /\ LET g == Pattern("op_MulIntLit", CurLine).g
       IN  Commit("op_MulIntLit", parse(op_MulIntLit_eval(VM, g[1], g[2], g[3])))

op_XorInt2Addr ==
    /\ Dispatches("op_XorInt2Addr")
    /\ LET g == Pattern("op_XorInt2Addr", CurLine).g
       IN  Commit("op_XorInt2Addr", parse(op_XorInt2Addr_eval(VM, g[1], g[2])))

op_DivInt ==
    /\ Dispatches("op_DivInt")
    /\ LET g == Pattern("op_DivInt", CurLine).g
       IN  Commit("op_DivInt", parse(op_DivInt_eval(VM, g[1], g[2], g[3])))

op_AddInt ==
    /\ Dispatches("op_AddInt")
    /\ LET g == Pattern("op_AddInt", CurLine).g
       IN  Commit("op_AddInt", parse(op_AddInt_eval(VM, g[1], g[2], g[3])))

op_SubInt ==
    /\ Dispatches("op_SubInt")
    /\ LET g == Pattern("op_SubInt", CurLine).g
       IN  Commit("op_SubInt", parse(op_SubInt_eval(VM, g[1], g[2], g[3])))

op_MulInt ==
    /\ Dispatches("op_MulInt")
    /\ LET g == Pattern("op_MulInt", CurLine).g
       IN  Commit("op_MulInt", parse(op_MulInt_eval(VM, g[1], g[2], g[3])))

op_RemInt ==
    /\ Dispatches("op_RemInt")
    /\ LET g == Pattern("op_RemInt", CurLine).g
       IN  Commit("op_RemInt", parse(op_RemInt_eval(VM, g[1], g[2], g[3])))

op_AndInt ==
    /\ Dispatches("op_AndInt")
    /\ LET g == Pattern("op_AndInt", CurLine).g
       IN  Commit("op_AndInt", parse(op_AndInt_eval(VM, g[1], g[2], g[3])))

op_OrInt ==
    /\ Dispatches("op_OrInt")
    /\ LET g == Pattern("op_OrInt", CurLine).g
       IN  Commit("op_OrInt", parse(op_OrInt_eval(VM, g[1], g[2], g[3])))

op_GoTo ==
    /\ Dispatches("op_GoTo")
    /\ LET g == Pattern("op_GoTo", CurLine).g
       IN  Commit("op_GoTo", parse(op_GoTo_eval(VM, g[1])))

op_NewArray ==
    /\ Dispatches("op_NewArray")
    /\ LET g == Pattern("op_NewArray", CurLine).g
       IN  Commit("op_NewArray", parse(op_NewArray_eval(VM, g[1], g[2], g[3])))

op_APut ==
    /\ Dispatches("op_APut")
    /\ LET g == Pattern("op_APut", CurLine).g
       IN  Commit("op_APut", parse(op_APut_eval(VM, g[1], g[2], g[3])))

op_Return ==
    /\ Dispatches("op_Return")
    /\ LET g == Pattern("op_Return", CurLine).g
       IN  Commit("op_Return", parse(op_Return_eval(VM, g[1], g[2])))

op_PackedSwitch ==
    /\ Dispatches("op_PackedSwitch")
    /\ LET g == Pattern("op_PackedSwitch", CurLine).g
       IN  Commit("op_PackedSwitch", parse(op_PackedSwitch_eval(VM, g[1], g[2])))

op_RSubIntLiteral ==
    /\ Dispatches("op_RSubIntLiteral")
    /\ LET g == Pattern("op_RSubIntLiteral", CurLine).g
       IN  Commit("op_RSubIntLiteral", parse(op_RSubIntLiteral_eval(VM, g[1], g[2], g[3], g[4])))

(* vm[vx] = vm[vy]: a list is shared, not copied. *)
op_Move ==
    /\ Dispatches("op_Move")
    /\ LET g == Pattern("op_Move", CurLine).g
       IN  Commit("op_Move",
                  parse(IF ~Has(VM, g[2]) THEN Raise(VM, "KeyError")
                        ELSE Set(VM, g[1], Get(VM, g[2]))))

op_MoveResult ==
    /\ Dispatches("op_MoveResult")
    /\ LET g == Pattern("op_MoveResult", CurLine).g
       IN  Commit("op_MoveResult", parse(op_MoveResult_eval(VM, g[1])))

(* eval("%s + %s" % (vm[vy], lit)): as in op_MulIntLit, the text of the
   literal is evaluated as it stands. *)
op_AddIntLit ==
    /\ Dispatches("op_AddIntLit")
    /\ LET g == Pattern("op_AddIntLit", CurLine).g
           n == literal_eval(g[3])
       IN  Commit("op_AddIntLit",
                  parse(IF ~Has(VM, g[2]) THEN Raise(VM, "KeyError")
                        ELSE IF ~n.ok THEN Raise(VM, "SyntaxError")
                        ELSE IF ~IsInt(Get(VM, g[2])) THEN Raise(VM, "TypeError")
                        ELSE Set(VM, g[1], IntCell(Get(VM, g[2]).v + n.v))))

(* ii | get_int_value(literal), ii the integer in vy. *)
op_OrIntLiteral ==
    /\ Dispatches("op_OrIntLiteral")
    /\ LET g == Pattern("op_OrIntLiteral", CurLine).g
           n == get_int_value(g[4])
           err == ReadInt(VM, g[3])
       IN  Commit("op_OrIntLiteral",
                  parse(IF err # "" THEN Raise(VM, err)
                        ELSE IF ~n.ok THEN Raise(VM, "ValueError")
                        ELSE Set(VM, g[2], IntCell(PyOr(Get(VM, g[3]).v, n.v)))))

op_DivIntLit ==
    /\ Dispatches("op_DivIntLit")
    /\ LET g == Pattern("op_DivIntLit", CurLine).g
       IN  Commit("op_DivIntLit", parse(op_DivIntLit_eval(VM, g[1], g[2], g[3])))

(* int(vm[vy]) & get_int_value(lit). *)
op_AndIntLit ==
    /\ Dispatches("op_AndIntLit")
    /\ LET g == Pattern("op_AndIntLit", CurLine).g
           n == get_int_value(g[3])
           err == ReadInt(VM, g[2])
       IN  Commit("op_AndIntLit",
                  parse(IF err # "" THEN Raise(VM, err)
                        ELSE IF ~n.ok THEN Raise(VM, "ValueError")
                        ELSE Set(VM, g[1], IntCell(PyAnd(Get(VM, g[2]).v, n.v)))))

(* vm[vx] = int(vm[vy]) & int(vm[vx]). *)
op_AndInt2Addr ==
    /\ Dispatches("op_AndInt2Addr")
    /\ LET g == Pattern("op_AndInt2Addr", CurLine).g
           err == ReadInts(VM, g[2], g[1])
       IN  Commit("op_AndInt2Addr",
                  parse(IF err # "" THEN Raise(VM, err)
                        ELSE Set(VM, g[1], IntCell(PyAnd(Get(VM, g[2]).v, Get(VM, g[1]).v)))))

op_Invoke ==
    /\ Dispatches("op_Invoke")
    /\ LET g == Pattern("op_Invoke", CurLine).g
       IN  Commit("op_Invoke", parse(op_Invoke_eval(VM, g[1], g[2])))

op_IntToType ==
    /\ Dispatches("op_IntToType")
    /\ LET g == Pattern("op_IntToType", CurLine).g
       IN  Commit("op_IntToType", parse(op_IntToType_eval(VM, g[1], g[2], g[3])))

(* vm.variables[staticVariableName] = vm.variables[vx]. *)
op_SPut ==
    /\ Dispatches("op_SPut")
    /\ LET g == Pattern("op_SPut", CurLine).g
       IN  Commit("op_SPut",
                  parse(IF ~Has(VM, g[1]) THEN Raise(VM, "KeyError")
                        ELSE Set(VM, g[2], Get(VM, g[1]))))

(* vm.variables[vx] = vm.variables[staticVariableName]. *)
op_SGet ==
    /\ Dispatches("op_SGet")
    /\ LET g == Pattern("op_SGet", CurLine).g
       IN  Commit("op_SGet",
                  parse(IF ~Has(VM, g[2]) THEN Raise(VM, "KeyError")
                        ELSE Set(VM, g[1], Get(VM, g[2]))))

op_RemIntLit ==
    /\ Dispatches("op_RemIntLit")
    /\ LET g == Pattern("op_RemIntLit", CurLine).g
       IN  Commit("op_RemIntLit", parse(op_RemIntLit_eval(VM, g[1], g[2], g[3])))

op_AddInt2Addr ==
    /\ Dispatches("op_AddInt2Addr")
    /\ LET g == Pattern("op_AddInt2Addr", CurLine).g
       IN  Commit("op_AddInt2Addr", parse(op_AddInt2Addr_eval(VM, g[1], g[2])))

op_SubInt2Addr ==
    /\ Dispatches("op_SubInt2Addr")
    /\ LET g == Pattern("op_SubInt2Addr", CurLine).g
       IN  Commit("op_SubInt2Addr", parse(op_SubInt2Addr_eval(VM, g[1], g[2])))

(* vm[source_and_dest] = vm[source_register] | vm[source_and_dest]. *)
op_OrInt2Addr ==
    /\ Dispatches("op_OrInt2Addr")
    /\ LET g == Pattern("op_OrInt2Addr", CurLine).g
           err == ReadInts(VM, g[2], g[1])
       IN  Commit("op_OrInt2Addr",
                  parse(IF err # "" THEN Raise(VM, err)
                        ELSE Set(VM, g[1], IntCell(PyOr(Get(VM, g[2]).v, Get(VM, g[1]).v)))))

(* A label, a directive or a line of a table: the executor passes it. *)
SkipLine ==
    /\ Running
    /\ IsSkipLine(CurLine)
    /\ pc' = pc + 1
    /\ last' = [h |-> "skip", at |-> pc, out |-> "ok", kind |-> ""]
    /\ pre' = Snapshot
    /\ UNCHANGED <<prog, variables, heap, return_v, stop, exceptions, fatal, bridge>>

(* No pattern matches the line: unknown opcode, fatal. *)
UnknownOpcode ==
    /\ Running
    /\ ~IsSkipLine(CurLine)
    /\ Unknown(CurLine)
    /\ fatal' = TRUE
    /\ last' = [h |-> "unknown", at |-> pc, out |-> "fatal", kind |-> ""]
    /\ pre' = Snapshot
    /\ UNCHANGED <<prog, variables, heap, pc, return_v, stop, exceptions, bridge>>

-----------------------------------------------------------------------------
(* Programs, as the preprocessor hands them over: the lines and the tables
   resolved from them.  data holds the element lists of the array-data
   blocks as parsed; array_data[L].elements is the address of the list. *)

NoTable == [x \in {} |-> 0]

Program(lines, labels, packed_switches, array_data, catch_blocks, data) ==
    [lines |-> lines, labels |-> labels, packed_switches |-> packed_switches,
     array_data |-> array_data, catch_blocks |-> catch_blocks, data |-> data]

Plain(lines) == Program(lines, NoTable, NoTable, NoTable, <<>>, <<>>)

Ret(vx) == Line("return", <<vx>>)

Const4(vx, lit) == Line("const/4", <<vx, lit>>)

ArithOps == {"add", "sub", "mul", "div", "rem", "and", "or", "xor", "shl", "shr", "ushr"}

(* <op>-int vX, p0, p1 with vX a third register or p0 itself. *)
ArithPrograms ==
    {Plain(<<Line(op \o "-int", <<vx, "p0", "p1">>), Ret(vx)>>) :
        op \in ArithOps, vx \in {"v0", "p0"}}

ArithmeticException == "Ljava/lang/ArithmeticException;"

CatchKinds ==
    {[catchall |-> FALSE, exception_type |-> ArithmeticException],
     [catchall |-> TRUE, exception_type |-> ""],
     [catchall |-> FALSE, exception_type |-> "Ljava/lang/NullPointerException;"]}

CatchBlock(k, start, end, handler) ==
    [start_line |-> start, end_line |-> end, catchall |-> k.catchall,
     exception_type |-> k.exception_type, handler_label |-> handler]

(* A division or remainder inside a try range, its handler after the
   normal return. *)
TryPrograms ==
    {Program(<<Line(":try_start", <<>>),
               Line(op \o "-int", <<"v2", "p0", "p1">>),
               Line(":try_end", <<>>),
               Line(".catch", <<>>),
               Ret("v2"),
               Line(":H", <<>>),
               Line("move-exception", <<"v3">>),
               Const4("v2", "0x2A"),
               Ret("v2")>>,
             (":try_start" :> 2) @@ (":try_end" :> 4) @@ (":H" :> 7),
             NoTable, NoTable,
             <<CatchBlock(k, 2, 4, ":H")>>, <<>>) :
        op \in {"div", "rem"}, k \in CatchKinds}

Comparisons == {"eq", "ne", "lt", "le", "gt", "ge"}

IfLines(first) ==
    <<first, Const4("v1", "0x1"), Ret("v1"), Line(":L", <<>>), Const4("v1", "0x2"), Ret("v1")>>

IfPrograms ==
    {Program(IfLines(Line("if-" \o c, <<"p0", "p1", ":L">>)), (":L" :> 5),
             NoTable, NoTable, <<>>, <<>>) : c \in Comparisons}
    \cup
    {Program(IfLines(Line("if-" \o c \o "z", <<"p0", ":L">>)), (":L" :> 5),
             NoTable, NoTable, <<>>, <<>>) : c \in Comparisons}

(* packed-switch on vx over the cases :A, :B from first_value on. *)
SwitchLines(first, vx) ==
    first \o
    <<Line("packed-switch", <<vx, ":T">>), Const4("v1", "0xF"), Ret("v1"),
      Line(":T", <<>>), Line(".packed-switch", <<>>), Line(":A", <<>>), Line(":B", <<>>),
      Line(".end", <<>>),
      Line(":A", <<>>), Const4("v1", "0x1"), Ret("v1"),
      Line(":B", <<>>), Const4("v1", "0x2"), Ret("v1")>>

SwitchProgram(first, vx, first_value) ==
    LET n == Len(first)
    IN  Program(SwitchLines(first, vx),
                (":T" :> n + 5) @@ (":A" :> n + 10) @@ (":B" :> n + 13),
                (":T" :> [first_value |-> first_value, cases |-> <<":A", ":B">>]),
                NoTable, <<>>, <<>>)

SwitchPrograms == {SwitchProgram(<<>>, "p0", fv) : fv \in {-1, 0, 2}}

(* rsub-int/litN v0, p0, literal, the literals at the ends of each width. *)
RSubCases ==
    ({"8"} \X {"0x3", "0x7f", "-0x80", "0x80", "0x7et"})
    \cup ({"16"} \X {"0x3", "0x7fff", "-0x8000", "0x7f"})
    \cup ({"32"} \X {"0x3", "0x7fffffff", "-0x7fffffff"})

RSubPrograms ==
    {Plain(<<Line("rsub-int/lit" \o c[1], <<"v0", "p0", c[2]>>), Ret("v0")>>) : c \in RSubCases}

ReturnPrograms ==
    {Plain(<<first, Const4("v0", "0x1"), Ret("v0")>>) :
        first \in {Line("return-void", <<>>), Line("return", <<>>), Ret("p0"),
                   Line("return-wide", <<"p0">>), Line("return-object", <<"p1">>),
                   Line("return-wide", <<"v9">>), Line("return-float", <<"p0">>)}}

GotoPrograms ==
    {Program(<<Line(mn, <<":L">>), Ret("p0"), Line(":L", <<>>), Line("return-wide", <<"p1">>)>>,
             (":L" :> 4), NoTable, NoTable, <<>>, <<>>) : mn \in {"goto", "goto/16"}}

ArrayData(elements) == (":D" :> [element_width |-> 1, elements |-> 1])

Ints(seq) == [i \in 1 .. Len(seq) |-> IntCell(seq[i])]

(* aget from a two-element array at index p0. *)
AgetProgram ==
    Program(<<Line("fill-array-data", <<"v1", ":D">>),
              Line("aget", <<"v3", "v1", "p0">>),
              Ret("v3"),
              Line(":D", <<>>), Line(".array-data", <<>>), Line(".end", <<>>)>>,
            (":D" :> 5), NoTable, ArrayData(1), <<>>, <<Ints(<<10, 20>>)>>)

(* aput of p1 at index p0 into the array bound from :D, then a second
   fill-array-data from the same :D. *)
AputProgram ==
    Program(<<Line("fill-array-data", <<"v1", ":D">>),
              Line("aput", <<"p1", "v1", "p0">>),
              Line("fill-array-data", <<"v2", ":D">>),
              Line("array-length", <<"v3", "v2">>),
              Line("return-object", <<"v2">>),
              Line(":D", <<>>), Line(".array-data", <<>>), Line(".end", <<>>)>>,
            (":D" :> 7), NoTable, ArrayData(1), <<>>, <<Ints(<<10, 20>>)>>)

(* aput into a fresh array of p0 elements at index p1. *)
NewArrayProgram ==
    Plain(<<Line("new-array", <<"v1", "p0", "[B">>),
            Line("aput-byte", <<"p1", "v1", "p1">>),
            Line("array-length", <<"v3", "v1">>),
            Ret("v3")>>)

(* The scenarios of the specification. *)
Scenario1 == Plain(<<Const4("v0", "0x5"), Ret("v0")>>)

Scenario2 ==
    Plain(<<Const4("v0", "0x3"), Const4("v1", "0x4"), Line("add-int", <<"v2", "v0", "v1">>),
            Line("mul-int/lit8", <<"v2", "v2", "0x2">>), Ret("v2")>>)

Scenario3 ==
    Program(<<Const4("v0", "0x0"), Line("if-eqz", <<"v0", ":L">>), Const4("v1", "0x1"), Ret("v1"),
              Line(":L", <<>>), Const4("v1", "0x2"), Ret("v1")>>,
            (":L" :> 6), NoTable, NoTable, <<>>, <<>>)

Scenario4 == SwitchProgram(<<Const4("v0", "0x5")>>, "v0", 0)

Scenario5 ==
    Program(<<Const4("v0", "0x3"), Line("new-array", <<"v1", "v0", "[B">>),
              Line("fill-array-data", <<"v1", ":D">>), Const4("v2", "0x1"),
              Line("aget-byte", <<"v3", "v1", "v2">>), Ret("v3"),
              Line(":D", <<>>), Line(".array-data", <<>>), Line(".end", <<>>)>>,
            (":D" :> 8), NoTable, ArrayData(1), <<>>, <<Ints(<<10, 2, 4>>)>>)

Scenario6 ==
    Program(<<Line(":try_start", <<>>), Const4("v0", "0x1"), Const4("v1", "0x0"),
              Line("div-int", <<"v2", "v0", "v1">>), Line(":try_end", <<>>),
              Line(".catch", <<>>), Line(":H", <<>>), Line("move-exception", <<"v3">>),
              Const4("v2", "0x2A"), Ret("v2")>>,
            (":try_start" :> 2) @@ (":try_end" :> 6) @@ (":H" :> 8),
            NoTable, NoTable,
            <<CatchBlock([catchall |-> FALSE, exception_type |-> ArithmeticException],
                         2, 6, ":H")>>, <<>>)

(* A method body that ends without a return. *)
NoReturnProgram == Plain(<<Const4("v0", "0x5")>>)

(* The literal and two-address forms of the integer operations, the latter
   on two registers and on one register twice; and the division and the
   remainder of p0 by a literal and by p1 side by side. *)
IntFormPrograms ==
    {Plain(<<Line(op \o "-int/lit8", <<"v0", "p0", lit>>), Ret("v0")>>) :
        op \in {"add", "mul", "div", "rem", "and", "or"},
        lit \in {"0x0", "0x2", "-0x2", "0x3", "0x1t"}}
    \cup
    {Plain(<<Line(op \o "-int/2addr", <<"p0", vy>>), Line("return-wide", <<"p0">>)>>) :
        op \in {"add", "sub", "and", "or", "xor"}, vy \in {"p1", "p0"}}
    \cup
    {Plain(<<Line("div-int/lit8", <<"v2", "p0", lit>>), Line("rem-int/lit16", <<"v3", "p0", lit>>),
             Line("div-int", <<"v0", "p0", "p1">>), Line("rem-int", <<"v1", "p0", "p1">>),
             Line("return-void", <<>>)>>) :
        lit \in {"-0x3", "-0x2", "-0x1", "0x1", "0x2", "0x3"}}

(* const and its variants on literals with and without a width suffix. *)
ConstPrograms ==
    {Plain(<<Line(mn, <<"v0", lit>>), Ret("v0")>>) :
        mn \in {"const", "const/4", "const/16", "const/high16"},
        lit \in {"0x0", "0x7", "-0x8", "0x7ft", "0x80t", "-0x81t", "0x1fft",
                 "0x7fffs", "0x8000s", "0x10000", "0x80"}}

(* int-to-<type> of p0 and of a constant around the ends of a byte. *)
IntToTypePrograms ==
    {Plain(<<Line("int-to-" \o ctype, <<"v0", "p0">>), Ret("v0")>>) :
        ctype \in {"byte", "char", "short"}}
    \cup
    {Plain(<<Line("const/16", <<"v1", lit>>), Line("int-to-byte", <<"v0", "v1">>), Ret("v0")>>) :
        lit \in {"0x7f", "0x80", "0xff", "0x100", "-0x80", "-0x81"}}

(* An invoke of each kind on a list of none, one and two registers, then
   the result moved through a register and a static field. *)
InvokePrograms ==
    {Plain(<<Line("invoke-" \o kind, list \o <<call>>),
             Line("move-result", <<"v0">>),
             Line("sput", <<"p0", "LFoo;->f:I">>),
             Line("sget", <<"v1", "LFoo;->f:I">>),
             Line("move", <<"v2", "v1">>),
             Ret("v2")>>) :
        kind \in {"static", "virtual", "direct"},
        list \in {<<"{}">>, <<"{p0}">>, <<"{p0", "p1}">>},
        call \in {"LFoo;->bar(II)I", "LFoo;->baz()V", "LFoo.bar(II)I"}}

(* A division that fails inside a try range whose handler fails in turn
   inside a second one; the second handler moves the exceptions out. *)
NestedTryProgram ==
    Program(<<Line(":try_start_0", <<>>), Line("div-int", <<"v2", "p0", "p1">>),
              Line(":try_end_0", <<>>), Ret("v2"),
              Line(":H1", <<>>), Line("add-int", <<"v2", "v8", "v9">>), Ret("v2"),
              Line(":H2", <<>>), Line("move-exception", <<"v3">>),
              Line("move-exception", <<"v4">>), Line("move-exception", <<"v5">>),
              Line("return-object", <<"v3">>)>>,
            (":try_start_0" :> 1) @@ (":try_end_0" :> 3) @@ (":H1" :> 5) @@ (":H2" :> 8),
            NoTable, NoTable,
            <<CatchBlock([catchall |-> FALSE, exception_type |-> ArithmeticException], 1, 3, ":H1"),
              CatchBlock([catchall |-> TRUE, exception_type |-> ""], 5, 7, ":H2")>>, <<>>)

Scenarios == {Scenario1, Scenario2, Scenario3, Scenario4, Scenario5, Scenario6}

Programs ==
    ArithPrograms \cup TryPrograms \cup IfPrograms \cup SwitchPrograms \cup RSubPrograms
    \cup ReturnPrograms \cup GotoPrograms \cup Scenarios
    \cup {AgetProgram, AputProgram, NewArrayProgram, NoReturnProgram}
    \cup IntFormPrograms \cup ConstPrograms \cup IntToTypePrograms \cup InvokePrograms
    \cup {NestedTryProgram}

-----------------------------------------------------------------------------

(* The VM is created empty and the caller binds the parameters p0, p1. *)
Init ==
    /\ prog \in Programs
    /\ \E a \in IntVals, b \in IntVals :
          variables = ("p0" :> IntCell(a)) @@ ("p1" :> IntCell(b))
    /\ heap = prog.data
    /\ pc = 1
    /\ return_v = NoneCell
    /\ stop = FALSE
    /\ exceptions = <<>>
    /\ fatal = FALSE
    /\ bridge = <<>>
    /\ last = [h |-> "", at |-> 0, out |-> "", kind |-> ""]
    /\ pre = [variables |-> variables, heap |-> heap, return_v |-> return_v,
              stop |-> stop, exceptions |-> exceptions, bridge |-> bridge]

Next ==
    \/ op_Const \/ op_MoveException
    \/ op_IfLe \/ op_IfGe \/ op_IfGez \/ op_IfLtz \/ op_IfGt \/ op_IfGtz
    \/ op_IfLez \/ op_IfEq \/ op_IfNe \/ op_IfLt \/ op_IfEqz \/ op_IfNez
    \/ op_ArrayLength \/ op_ArrayFillData \/ op_Aget
    \/ op_MulIntLit \/ op_XorInt2Addr
    \/ op_DivInt \/ op_AddInt \/ op_SubInt \/ op_MulInt \/ op_RemInt \/ op_AndInt \/ op_OrInt
    \/ op_GoTo \/ op_NewArray \/ op_APut
    \/ op_Return \/ op_PackedSwitch \/ op_RSubIntLiteral
    \/ op_Move \/ op_MoveResult \/ op_SPut \/ op_SGet
    \/ op_AddIntLit \/ op_OrIntLiteral \/ op_DivIntLit \/ op_AndIntLit \/ op_RemIntLit
    \/ op_AndInt2Addr \/ op_AddInt2Addr \/ op_SubInt2Addr \/ op_OrInt2Addr
    \/ op_Invoke \/ op_IntToType
    \/ SkipLine \/ UnknownOpcode

Spec == Init /\ [][Next]_vars

-----------------------------------------------------------------------------
(* What the last step did, for the properties below. *)

Acted == last.at > 0

LastLine == prog.lines[last.at]

LastOps == LastLine.ops

(* The integer a register held before the last step. *)
Before(name) == pre.variables[name].v

IntBefore(name) == name \in DOMAIN pre.variables /\ IsInt(pre.variables[name])

RegistersUnchanged == variables = pre.variables

-----------------------------------------------------------------------------
ReturnMnemonics == {"return-void", "return", "return-wide", "return-object"}

ReturnDone ==
    /\ Acted
    /\ LastLine.mn \in ReturnMnemonics
    /\ last.h = "op_Return"
    /\ last.out = "ok"

ReturnedCell ==
    IF LastLine.mn = "return-void" \/ LastOps = <<>> THEN NoneCell
    ELSE pre.variables[LastOps[1]]

(* A return* whose register is bound (or that names none) does execute. *)
ReturnRuns ==
    (/\ Acted
     /\ LastLine.mn \in ReturnMnemonics
     /\ \A i \in 1 .. Len(LastOps) : LastOps[i] \in DOMAIN pre.variables)
    => ReturnDone

(* C1.  After a return-void, return vX, return-wide vX or return-object vX
   has executed, stop is true, return_v is what vX held (None for
   return-void) and no further step of the executor is taken. *)
C1_ReturnStops ==
    /\ [](ReturnRuns /\ (ReturnDone => stop /\ return_v = ReturnedCell))
    /\ [][~ReturnDone]_vars

C1_Witness ==
    /\ ReturnDone
    /\ LastLine.mn = "return-wide"
    /\ return_v = variables["p0"]
    /\ last.at < Len(prog.lines)
    /\ ~IsSkipLine(prog.lines[last.at + 1])

-----------------------------------------------------------------------------
SwitchActed == Acted /\ LastLine.mn = "packed-switch" /\ IntBefore(LastOps[1])

SwitchTable == prog.packed_switches[LastOps[2]]

SwitchIndex == Before(LastOps[1]) - SwitchTable.first_value

(* C2.  packed-switch vX, :L with s = packed_switches[L] and
   i = vX - s.first_value jumps to s.cases[i] when 0 <= i < len(s.cases);
   for every other vX it goes on to the next line; no register changes. *)
C2_PackedSwitch ==
    SwitchActed =>
        /\ last.h = "op_PackedSwitch"
        /\ last.out = "ok"
        /\ pc = IF 0 <= SwitchIndex /\ SwitchIndex < Len(SwitchTable.cases)
                THEN prog.labels[SwitchTable.cases[SwitchIndex + 1]]
                ELSE last.at + 1
        /\ RegistersUnchanged

C2_Witness ==
    /\ SwitchActed
    /\ SwitchIndex < 0
    /\ pc = last.at + 1
    /\ last.out = "ok"

-----------------------------------------------------------------------------
ZeroDivided ==
    /\ Acted
    /\ LastLine.mn \in {"div-int", "rem-int"}
    /\ Len(LastOps) = 3
    /\ IntBefore(LastOps[2])
    /\ IntBefore(LastOps[3])
    /\ Before(LastOps[3]) = 0

ArithmeticCatches ==
    {i \in 1 .. Len(prog.catch_blocks) :
        /\ prog.catch_blocks[i].start_line <= last.at
        /\ last.at <= prog.catch_blocks[i].end_line
        /\ \/ prog.catch_blocks[i].catchall
           \/ prog.catch_blocks[i].exception_type = ArithmeticException}

(* C3.  div-int and rem-int with zero in vZ raise an exception that is
   pushed onto the exception stack; inside a try range with a matching
   catch, control goes to the handler label with the exception still on
   the stack (scenario 6 ends with the exception in v3 and return_v 42). *)
C3_ZeroDivisorRaises ==
    /\ ZeroDivided =>
        /\ last.out # "ok"
        /\ exceptions = Append(pre.exceptions, ExcCell("ZeroDivisionError"))
        /\ ArithmeticCatches # {} =>
             /\ ~fatal
             /\ \E i \in ArithmeticCatches : pc = prog.labels[prog.catch_blocks[i].handler_label]
    /\ (prog = Scenario6 /\ ~Running) =>
        /\ stop
        /\ return_v = IntCell(42)
        /\ variables["v3"] = ExcCell("ZeroDivisionError")
        /\ exceptions = <<>>

C3_Witness ==
    /\ ZeroDivided
    /\ prog = Scenario6
    /\ pc = prog.labels[":H"]
    /\ exceptions = <<ExcCell("ZeroDivisionError")>>
    /\ "v2" \notin DOMAIN variables

-----------------------------------------------------------------------------
Holds(c, x, y) ==
    CASE c = "eq" -> x = y
      [] c = "ne" -> x # y
      [] c = "lt" -> x < y
      [] c = "le" -> x <= y
      [] c = "gt" -> x > y
      [] c = "ge" -> x >= y

IfTwo == {"if-" \o c : c \in Comparisons}

IfZero == {"if-" \o c \o "z" : c \in Comparisons}

IfActed ==
    /\ Acted
    /\ \/ LastLine.mn \in IfTwo /\ Len(LastOps) = 3 /\ IntBefore(LastOps[2])
       \/ LastLine.mn \in IfZero /\ Len(LastOps) = 2
    /\ IntBefore(LastOps[1])

IfHolds ==
    IF LastLine.mn \in IfTwo
    THEN Holds(After(LastLine.mn, "if-"), Before(LastOps[1]), Before(LastOps[2]))
    ELSE Holds(SubSeq(LastLine.mn, 4, 5), Before(LastOps[1]), 0)

(* C4.  if-<cmp> vX, vY, :L for cmp in eq, ne, lt, le, gt, ge sets pc to
   labels[L] exactly when the comparison holds on the integers in vX and
   vY and otherwise goes on to the next line; if-<cmp>z vX, :L does the
   same against zero; no register changes. *)
C4_Branches ==
    IfActed =>
        /\ last.h \notin {"unknown", "skip"}
        /\ last.out = "ok"
        /\ pc = IF IfHolds THEN prog.labels[LastOps[Len(LastOps)]] ELSE last.at + 1
        /\ RegistersUnchanged

C4_Witness ==
    /\ IfActed
    /\ LastLine.mn = "if-gez"
    /\ Before(LastOps[1]) = 0
    /\ pc = prog.labels[":L"]
    /\ pc # last.at + 1

-----------------------------------------------------------------------------
ReturnRan == Acted /\ last.h = "op_Return" /\ last.out = "ok"

(* C5, as stated.  Running a Program to completion leaves stop = true and
   pc at the line index of the return* that was executed. *)
C5_PcAtReturn ==
    /\ ReturnRan => stop
    /\ stop => ReturnRan /\ pc = last.at

(* C5, amended.  Running a Program to completion leaves stop = true and
   pc one past the line index of the return* that was executed: the return
   handler does not move pc and the executor advances it once, as after
   every handler that left pc alone. *)
C5_PcPastReturn ==
    /\ ReturnRan => stop
    /\ stop => ReturnRan /\ pc = last.at + 1

C5_Witness ==
    /\ prog = Scenario3
    /\ stop
    /\ return_v = IntCell(2)
    /\ LastLine.mn = "return"
    /\ pc = last.at + 1

-----------------------------------------------------------------------------
LiteralValue(text) ==
    CASE text = "0x3" -> 3
      [] text = "0x7f" -> 127
      [] text = "-0x80" -> -128
      [] text = "0x80" -> 128
      [] text = "0x7et" -> 126
      [] text = "0x7fff" -> 32767
      [] text = "-0x8000" -> -32768
      [] text = "0x7fffffff" -> 2147483647
      [] text = "-0x7fffffff" -> -2147483647

Highest(width) == CASE width = "8" -> 127 [] width = "16" -> 32767 [] width = "32" -> 2147483647

Lowest(width) == -Highest(width) - 1

RSubActed ==
    /\ Acted
    /\ StartsWith(LastLine.mn, "rsub-int/lit")
    /\ After(LastLine.mn, "rsub-int/lit") \in {"8", "16", "32"}
    /\ Len(LastOps) = 3
    /\ IntBefore(LastOps[2])

RSubWidth == After(LastLine.mn, "rsub-int/lit")

(* literal - vY lies outside the range; the sides are arranged so that the
   comparison never leaves 32 bits. *)
ResultOutside ==
    LET c == LiteralValue(LastOps[3])
        y == Before(LastOps[2])
    IN  \/ y <= 0 /\ c > Highest(RSubWidth) + y
        \/ y >= 0 /\ c < Lowest(RSubWidth) + y

(* C6.  rsub-int/litN vX, vY, literal with N in 8, 16, 32: whenever vX is
   written it holds literal - vY and the value lies in the signed N-bit
   range; a result outside the range fails the assertion and nothing is
   stored. *)
C6_RSubLiteral ==
    RSubActed =>
        /\ last.h = "op_RSubIntLiteral"
        /\ last.out = "ok" =>
             /\ ~ResultOutside
             /\ variables = (LastOps[1] :> IntCell(LiteralValue(LastOps[3]) - Before(LastOps[2])))
                               @@ pre.variables
             /\ variables[LastOps[1]].v >= Lowest(RSubWidth)
             /\ variables[LastOps[1]].v <= Highest(RSubWidth)
        /\ ResultOutside =>
             /\ last.kind = "AssertionError"
             /\ RegistersUnchanged

C6_Witness ==
    /\ RSubActed
    /\ RSubWidth = "32"
    /\ ResultOutside
    /\ last.kind = "AssertionError"
    /\ LastOps[1] \notin DOMAIN variables

-----------------------------------------------------------------------------
(* The bits 0 .. 5 of x in two's complement, and back. *)
Bits(x) == {i \in 0 .. 5 : ((x + 64) \div (2 ^ i)) % 2 = 1}

RECURSIVE Weigh(_)
Weigh(S) ==
    IF S = {} THEN 0
    ELSE LET i == CHOOSE j \in S : TRUE
         IN  (IF i = 5 THEN -32 ELSE 2 ^ i) + Weigh(S \ {i})

(* Java's int operations on small operands, shift counts in 0 .. 31. *)
Result(op, y, z) ==
    CASE op = "add" -> y + z
      [] op = "sub" -> y - z
      [] op = "mul" -> y * z
      [] op = "div" -> y \div z
      [] op = "rem" -> y - z * (y \div z)
      [] op = "and" -> Weigh(Bits(y) \cap Bits(z))
      [] op = "or" -> Weigh(Bits(y) \cup Bits(z))
      [] op = "xor" -> Weigh((Bits(y) \cup Bits(z)) \ (Bits(y) \cap Bits(z)))
      [] op = "shl" -> y * (2 ^ z)
      [] op = "shr" -> y \div (2 ^ z)
      [] op = "ushr" -> IF y >= 0 \/ z = 0 THEN y \div (2 ^ z)
                        ELSE (y \div (2 ^ z)) + 2 * (2 ^ (31 - z))

ArithActed ==
    /\ Acted
    /\ \E op \in ArithOps : LastLine.mn = op \o "-int"
    /\ Len(LastOps) = 3
    /\ IntBefore(LastOps[2])
    /\ IntBefore(LastOps[3])
    /\ LastLine.mn \in {"div-int", "rem-int"} => Before(LastOps[3]) # 0
    /\ LastLine.mn \in {"shl-int", "shr-int", "ushr-int"} => Before(LastOps[3]) >= 0

ArithOp == SubSeq(LastLine.mn, 1, Len(LastLine.mn) - 4)

(* C7.  For every op in add, sub, mul, div, rem, and, or, xor, shl, shr,
   ushr the line <op>-int vX, vY, vZ is accepted by a handler that stores
   the result of the operation on vY and vZ in vX and leaves every other
   register as it was. *)
C7_ThreeOperandInt ==
    ArithActed =>
        /\ last.h \notin {"unknown", "skip"}
        /\ last.out = "ok"
        /\ variables = (LastOps[1] :> IntCell(Result(ArithOp, Before(LastOps[2]), Before(LastOps[3]))))
                          @@ pre.variables

-----------------------------------------------------------------------------
AgetActed ==
    /\ Acted
    /\ StartsWith(LastLine.mn, "aget")
    /\ Len(LastOps) = 3
    /\ LastOps[2] \in DOMAIN pre.variables
    /\ IsList(pre.variables[LastOps[2]])
    /\ IntBefore(LastOps[3])

AgetArray == pre.heap[pre.variables[LastOps[2]].v]

(* C8.  aget vX, vY, vZ stores vY[vZ] in vX when 0 <= vZ < len(vY); for
   every other index, negative or at or past len(vY), it raises an
   out-of-bounds exception and does not write vX. *)
C8_AgetBounds ==
    AgetActed =>
        IF 0 <= Before(LastOps[3]) /\ Before(LastOps[3]) < Len(AgetArray)
        THEN /\ last.out = "ok"
             /\ variables = (LastOps[1] :> AgetArray[Before(LastOps[3]) + 1]) @@ pre.variables
        ELSE /\ last.kind = "IndexError"
             /\ RegistersUnchanged

-----------------------------------------------------------------------------
AputActed ==
    /\ Acted
    /\ StartsWith(LastLine.mn, "aput")
    /\ Len(LastOps) = 3
    /\ LastOps[1] \in DOMAIN pre.variables
    /\ LastOps[2] \in DOMAIN pre.variables
    /\ IsList(pre.variables[LastOps[2]])
    /\ IntBefore(LastOps[3])
    /\ Before(LastOps[3]) >= 0

AputAddress == pre.variables[LastOps[2]].v

(* C9.  aput vX, vY, vZ: with 0 <= vZ < len(vY) only element vZ of the
   array changes and its length stays; with vZ = len(vY) the array grows by
   one element holding vX; with vZ > len(vY) the array is left as it was
   and no exception is raised. *)
C9_AputGrowsOrSkips ==
    AputActed =>
        LET old == pre.heap[AputAddress]
            new == heap[AputAddress]
            idx == Before(LastOps[3])
            val == pre.variables[LastOps[1]]
        IN  /\ last.h = "op_APut"
            /\ last.out = "ok"
            /\ exceptions = pre.exceptions
            /\ idx < Len(old) =>
                 /\ Len(new) = Len(old)
                 /\ new[idx + 1] = val
                 /\ \A i \in 1 .. Len(old) : i # idx + 1 => new[i] = old[i]
            /\ idx = Len(old) => new = old \o <<val>>
            /\ idx > Len(old) => new = old
            /\ \A a \in 1 .. Len(pre.heap) : a # AputAddress => heap[a] = pre.heap[a]
            /\ RegistersUnchanged

C9_Witness ==
    /\ AputActed
    /\ Before(LastOps[3]) > Len(pre.heap[AputAddress])
    /\ Len(pre.heap[AputAddress]) > 0
    /\ heap = pre.heap
    /\ last.out = "ok"

-----------------------------------------------------------------------------
(* C10.  Execution never changes the Program: the elements of every
   array-data block stay what the preprocessor read, also after
   fill-array-data vX, :L and aput writes into vX. *)
C10_ProgramImmutable ==
    \A L \in DOMAIN prog.array_data :
        heap[prog.array_data[L].elements] = prog.data[prog.array_data[L].elements]

-----------------------------------------------------------------------------
MoveExceptionActed ==
    /\ Acted
    /\ LastLine.mn = "move-exception"
    /\ pre.exceptions # <<>>

(* C11.  move-exception vX consumes the most recently raised exception:
   afterwards vX holds what was on top of the exception stack, the stack is
   one shorter, and the exceptions raised earlier stay in their order. *)
C11_MoveExceptionPops ==
    /\ MoveExceptionActed =>
        /\ last.h = "op_MoveException"
        /\ last.out = "ok"
        /\ variables = (LastOps[1] :> pre.exceptions[Len(pre.exceptions)]) @@ pre.variables
        /\ Len(exceptions) = Len(pre.exceptions) - 1
        /\ exceptions = SubSeq(pre.exceptions, 1, Len(pre.exceptions) - 1)
    /\ (prog = NestedTryProgram /\ "v4" \in DOMAIN variables) =>
        /\ variables["v3"] = ExcCell("KeyError")
        /\ variables["v4"] = ExcCell("ZeroDivisionError")

C11_Witness ==
    /\ MoveExceptionActed
    /\ prog = NestedTryProgram
    /\ pre.exceptions = <<ExcCell("ZeroDivisionError"), ExcCell("KeyError")>>
    /\ exceptions = <<ExcCell("ZeroDivisionError")>>
    /\ variables["v3"] = ExcCell("KeyError")

-----------------------------------------------------------------------------
ArithmeticHandlers ==
    {"op_AddInt", "op_SubInt", "op_MulInt", "op_DivInt", "op_RemInt", "op_AndInt", "op_OrInt",
     "op_AddIntLit", "op_MulIntLit", "op_DivIntLit", "op_RemIntLit", "op_AndIntLit",
     "op_OrIntLiteral", "op_RSubIntLiteral",
     "op_AddInt2Addr", "op_SubInt2Addr", "op_AndInt2Addr", "op_OrInt2Addr"}

ArithmeticDone ==
    /\ Acted
    /\ last.h \in ArithmeticHandlers
    /\ last.out = "ok"
    /\ \A i \in 1 .. Len(LastOps) : LastOps[i] \in DOMAIN pre.variables => IntBefore(LastOps[i])

(* C12.  Integer arithmetic on integer cells produces an integer cell: what
   an add, sub, mul, div, rem, and, or handler, in its three-register,
   literal or two-address form, writes to its destination is an integer,
   and it writes no other register. *)
C12_IntegerResults ==
    ArithmeticDone =>
        /\ LastOps[1] \in DOMAIN variables
        /\ IsInt(variables[LastOps[1]])
        /\ \A r \in DOMAIN variables \ {LastOps[1]} :
              r \in DOMAIN pre.variables /\ variables[r] = pre.variables[r]

C12_Witness ==
    /\ ArithmeticDone
    /\ last.h = "op_DivInt"
    /\ Before(LastOps[2]) = -3
    /\ Before(LastOps[3]) = 2
    /\ variables[LastOps[1]] = IntCell(-2)

-----------------------------------------------------------------------------
TwoAddrActed ==
    /\ Acted
    /\ LastLine.mn \in {"add-int/2addr", "sub-int/2addr", "and-int/2addr", "or-int/2addr"}
    /\ Len(LastOps) = 2
    /\ IntBefore(LastOps[1])
    /\ IntBefore(LastOps[2])

TwoAddrOp == SubSeq(LastLine.mn, 1, Len(LastLine.mn) - Len("-int/2addr"))

(* C13.  <op>-int/2addr vX, vY for add, sub, and, or reads both registers
   and writes only vX, with vX <- (old vX) OP (old vY); vY keeps its value
   when it is another register, and with vX and vY the same register the
   result comes from its one old value (sub gives 0). *)
C13_TwoAddrOrder ==
    TwoAddrActed =>
        /\ last.h \notin {"unknown", "skip"}
        /\ last.out = "ok"
        /\ variables = (LastOps[1] :> IntCell(Result(TwoAddrOp, Before(LastOps[1]), Before(LastOps[2]))))
                          @@ pre.variables
        /\ (LastOps[1] = LastOps[2] /\ TwoAddrOp = "sub") => variables[LastOps[1]] = IntCell(0)

C13_Witness ==
    /\ TwoAddrActed
    /\ TwoAddrOp = "sub"
    /\ LastOps = <<"p0", "p1">>
    /\ Before("p0") = 1
    /\ Before("p1") = 3
    /\ variables["p0"] = IntCell(-2)
    /\ variables["p1"] = IntCell(3)

-----------------------------------------------------------------------------
IntToByteActed ==
    /\ Acted
    /\ LastLine.mn = "int-to-byte"
    /\ Len(LastOps) = 2
    /\ IntBefore(LastOps[2])

(* C14.  int-to-byte vX, vY sign-extends the low 8 bits: vX becomes
   ((vY + 128) mod 256) - 128, a value in -128 .. 127. *)
C14_IntToByteSignExtends ==
    IntToByteActed =>
        /\ last.h = "op_IntToType"
        /\ last.out = "ok"
        /\ variables = (LastOps[1] :> IntCell(((Before(LastOps[2]) + 128) % 256) - 128))
                          @@ pre.variables
        /\ variables[LastOps[1]].v \in -128 .. 127

-----------------------------------------------------------------------------
ConstActed ==
    /\ Acted
    /\ LastLine.mn \in {"const", "const/4", "const/16", "const/high16"}
    /\ Len(LastOps) = 2
    /\ get_int_value(LastOps[2]).ok

(* C15.  const, const/4, const/16 and const/high16 are all accepted by the
   const handler; after const[/variant] vX, literal the register vX holds
   the integer the literal reads as and no other register has changed. *)
C15_ConstVariants ==
    ConstActed =>
        /\ last.h = "op_Const"
        /\ last.out = "ok"
        /\ variables = (LastOps[1] :> IntCell(get_int_value(LastOps[2]).v)) @@ pre.variables

-----------------------------------------------------------------------------
ConstDone ==
    /\ Acted
    /\ last.h = "op_Const"
    /\ last.out = "ok"

(* The value of a literal with the suffix taken off and, when there was one,
   wrapped to the signed width the suffix stands for. *)
Truncated(text) ==
    LET n == literal_eval(RStrip(RStrip(text, "t"), "s")).v
    IN  IF EndsWith(text, "t") THEN ((n + 128) % 256) - 128
        ELSE IF EndsWith(text, "s") THEN ((n + 32768) % 65536) - 32768
        ELSE n

(* C16.  The literal parser strips a trailing t or s and, when there is such
   a suffix, truncates a value out of range to signed 8 bits (t) or signed
   16 bits (s); a literal without suffix is returned as it is. *)
C16_LiteralTruncates ==
    ConstDone => variables[LastOps[1]] = IntCell(Truncated(LastOps[2]))

-----------------------------------------------------------------------------
InvokeActed ==
    /\ Acted
    /\ StartsWith(LastLine.mn, "invoke-")
    /\ last.h = "op_Invoke"
    /\ last.out = "ok"

(* The registers an invoke line lists between its braces. *)
Listed ==
    LET raw == SubSeq(LastOps, 1, Len(LastOps) - 1)
        bare(x) == LET y == IF StartsWith(x, "{") THEN After(x, "{") ELSE x
                   IN  IF EndsWith(y, "}") THEN SubSeq(y, 1, Len(y) - 1) ELSE y
        names == [i \in 1 .. Len(raw) |-> bare(raw[i])]
    IN  IF names = <<"">> THEN <<>> ELSE names

(* C17.  The invoke handler splits the register list by kind: for the
   non-static kinds the first register goes to the bridge as this and the
   rest as arguments; for invoke-static there is no receiver and every
   listed register is an argument (none when the list is empty). *)
C17_InvokeByKind ==
    InvokeActed =>
        LET call == bridge[Len(bridge)]
        IN  /\ Len(bridge) = Len(pre.bridge) + 1
            /\ LastLine.mn = "invoke-static" =>
                  /\ call.args = Listed
                  /\ call.this \in {None, ""}
            /\ (LastLine.mn # "invoke-static" /\ Listed # <<>>) =>
                  /\ call.this = Listed[1]
                  /\ call.args = Tail(Listed)

-----------------------------------------------------------------------------
HandlerRaised == Acted /\ last.kind # ""

(* C18.  A handler's failure is atomic: when its evaluation raises (zero
   divisor, failed width assertion of rsub, missing register, bad array
   index), the instruction has changed no register, nor return_v, nor stop;
   exactly one exception has been reported, and the line counts as matched
   by that handler. *)
C18_FailureIsAtomic ==
    HandlerRaised =>
        /\ RegistersUnchanged
        /\ return_v = pre.return_v
        /\ stop = pre.stop
        /\ exceptions = Append(pre.exceptions, ExcCell(last.kind))
        /\ \E i \in 1 .. Len(Registry) : Registry[i] = last.h
        /\ Dispatch(last.h, LastLine)

C18_Witness ==
    /\ HandlerRaised
    /\ last.h = "op_Return"
    /\ last.kind = "KeyError"
    /\ LastOps = <<"v9">>
    /\ ~stop
    /\ exceptions = <<ExcCell("KeyError")>>

-----------------------------------------------------------------------------
(* The programs that divide p0 by a literal and by p1. *)
DivRemProgram == Len(prog.lines) = 5 /\ prog.lines[1].mn = "div-int/lit8"

DivRemLiteral == get_int_value(prog.lines[1].ops[3]).v

Abs(x) == IF x < 0 THEN -x ELSE x

FloorLaw(y, z, q, r) ==
    /\ y = q * z + r
    /\ r = 0 \/ ((r > 0) <=> (z > 0))
    /\ Abs(r) < Abs(z)

(* C19.  div-int and rem-int floor and agree with each other: for y and a
   nonzero z, with q the quotient and r the remainder, y = q*z + r, r is
   zero or has the sign of z, and |r| < |z|; the /litN forms give the same
   results as the three-register forms. *)
C19_FloorDivRem ==
    DivRemProgram =>
        /\ {"v2", "v3"} \subseteq DOMAIN variables =>
              FloorLaw(variables["p0"].v, DivRemLiteral, variables["v2"].v, variables["v3"].v)
        /\ {"v0", "v1"} \subseteq DOMAIN variables =>
              /\ FloorLaw(variables["p0"].v, variables["p1"].v, variables["v0"].v, variables["v1"].v)
              /\ variables["p1"].v = DivRemLiteral =>
                    /\ variables["v0"] = variables["v2"]
                    /\ variables["v1"] = variables["v3"]

C19_Witness ==
    /\ DivRemProgram
    /\ stop
    /\ variables["p0"] = IntCell(-3)
    /\ variables["p1"] = IntCell(2)
    /\ DivRemLiteral = 2
    /\ variables["v0"] = IntCell(-2)
    /\ variables["v1"] = IntCell(1)
    /\ variables["v2"] = IntCell(-2)
    /\ variables["v3"] = IntCell(1)

-----------------------------------------------------------------------------
(* C20.  stop is set only by return*: after any instructions that hold no
   return* (constants, moves, arithmetic, branches, goto, packed-switch,
   array and static-field opcodes) stop is still false, and of those
   handlers only invoke changes return_v. *)
C20_StopOnlyByReturn ==
    /\ stop => Acted /\ last.h = "op_Return"
    /\ (Acted /\ last.h # "op_Return") => ~stop /\ ~pre.stop
    /\ (Acted /\ last.h \notin {"op_Return", "op_Invoke"}) => return_v = pre.return_v

C20_Witness ==
    /\ Acted
    /\ last.h = "op_MoveResult"
    /\ last.out = "ok"
    /\ ~stop
    /\ return_v = StrCell("bar(II)I")
    /\ variables["v0"] = return_v
    /\ pre.return_v = return_v

====
